---- MODULE Spec2Model ----
(***************************************************************************)
(* EveryPage document pipeline: process_document_stateless                 *)
(* (workflow_orchestrator.py), its page task _process_single_page, the     *)
(* inference adapter (resetdata_ai_adapter.py) and the result aggregator   *)
(* (result_aggregator.py), as called from scan_document (main_api.py).     *)
(*                                                                         *)
(* One job runs on one asyncio event loop. Coroutine code between two      *)
(* awaits is atomic; tasks made by asyncio.create_task are queued FIFO and *)
(* first run when the creating coroutine awaits; the blocking inference    *)
(* call runs in a thread (asyncio.to_thread) and resumes its task later.   *)
(***************************************************************************)
EXTENDS Integers, Sequences, FiniteSets, TLC

\* ---------------------------------------------------------------- bounds
MaxPages == 2          \* most pages of a document whose pages fail in every way
MaxLongPages == 4      \* most pages of a document; the longer ones are rendered
                       \* in full and every page of them is read and answered
MaxWorkersCfg == 2     \* largest configured AppSettings.max_workers considered
MaxAggLen == 3         \* longest outcome list handed to the aggregator alone
MaxTextLen == 3        \* longest model text (in tokens) given to one page task alone
MaxRequests == 2       \* scan requests that the server handles side by side
MaxClockMs == 1        \* last value of the millisecond clock (it starts at 0)
MaxRandom == 1         \* largest value of the random suffix of a request id
MaxPromptChars == 201  \* longest user prompt, in characters
MaxSignal == 2         \* largest number of a signal that ends an external tool
MaxStoreCalls == 3     \* calls made on the job store after the job is created

\* ------------------------------------------------------ program constants
MAX_META_PAGES == 3

\* PageProcessingStatus (models.py)
SUCCESS == "success"
MOCK_SUCCESS == "mock_success"
ERROR_API == "error_api"
ERROR_PARSING == "error_parsing"
ERROR_VALIDATION == "error_validation"
ERROR_TIMEOUT == "error_timeout"
ERROR_IMAGE_ENCODING == "error_image_encoding"
ERROR_UNKNOWN == "error_unknown"

PageProcessingStatus ==
    { SUCCESS, MOCK_SUCCESS, ERROR_API, ERROR_PARSING, ERROR_VALIDATION,
      ERROR_TIMEOUT, ERROR_IMAGE_ENCODING, ERROR_UNKNOWN }

\* ------------------------------------------------------------ model text
\* A model text is a sequence of lexical tokens:
\*   "ws"   whitespace            "fj"  the fence ```json     "f"  the fence ```
\*   "obj"  a JSON object         "arr" a JSON array          "null" the JSON null
\*   "eobj" a JSON object whose quotes are written &quot;
\*   "objq" a JSON object holding &quot; inside a string
\*   "junk" text that is not JSON "long" more than 1000 characters that are not JSON
\* and, produced by the code only: "cut" the first 1000 characters of a "long"
JsonValueTokens == { "obj", "arr", "null" }

Tokens == { "ws", "fj", "f", "obj", "arr", "null", "eobj", "objq", "junk", "long" }

\* html.unescape: &quot; becomes a quote
html_unescape_token(tok) ==
    IF tok = "eobj" THEN "obj" ELSE IF tok = "objq" THEN "junk" ELSE tok

\* the unescaping left out
html_unescape_skipped(t) == t

html_unescape(t) == [i \in 1 .. Len(t) |-> html_unescape_token(t[i])]

\* text[:1000], for a text whose tokens other than "long" are short
RECURSIVE first_1000(_)
first_1000(t) ==
    IF t = <<>> THEN <<>>
    ELSE IF Head(t) = "long" THEN <<"cut">>
    ELSE <<Head(t)>> \o first_1000(Tail(t))

RECURSIVE lstrip(_)
lstrip(t) == IF t # <<>> /\ Head(t) = "ws" THEN lstrip(Tail(t)) ELSE t

RECURSIVE rstrip(_)
rstrip(t) ==
    IF t # <<>> /\ t[Len(t)] = "ws" THEN rstrip(SubSeq(t, 1, Len(t) - 1)) ELSE t

strip(t) == rstrip(lstrip(t))

\* a payload: nothing, a dict, a str, or a JSON value of another Python type
NoData == [type |-> "none", text |-> <<>>]
StrData(t) == [type |-> "str", text |-> t]
JsonData(tok) ==
    IF tok = "null" THEN NoData
    ELSE [type |-> IF tok = "obj" THEN "dict" ELSE "list", text |-> <<tok>>]

\* the branch of parse_and_validate_ai_output for "application/json"
parse_json_output(extracted_text) ==
    LET s1 == strip(extracted_text)
        s2 == IF s1 # <<>> /\ Head(s1) = "fj" THEN Tail(s1) ELSE s1
        s3 == IF s2 # <<>> /\ s2[Len(s2)] = "f"
              THEN SubSeq(s2, 1, Len(s2) - 1) ELSE s2
        clean_text == strip(s3)
        decoded_text == html_unescape(clean_text)
    IN  IF clean_text = <<>>
        THEN [data |-> StrData(extracted_text), status |-> ERROR_PARSING, err |-> TRUE]
        ELSE IF Len(decoded_text) = 1 /\ decoded_text[1] \in JsonValueTokens
        THEN [data |-> JsonData(decoded_text[1]), status |-> "none", err |-> FALSE]
        ELSE [data |-> StrData(extracted_text), status |-> ERROR_PARSING, err |-> TRUE]

\* the raw text returned stripped
parse_and_validate_ai_output_strips_text(extracted_text, requested_format) ==
    IF requested_format = "application/json"
    THEN parse_json_output(extracted_text)
    ELSE [data |-> StrData(strip(extracted_text)), status |-> "none", err |-> FALSE]

\* parse_and_validate_ai_output: <<result_data, validation_status, has_error>>
parse_and_validate_ai_output(extracted_text, requested_format) ==
    IF requested_format = "application/json"
    THEN parse_json_output(extracted_text)
    ELSE [data |-> StrData(extracted_text), status |-> "none", err |-> FALSE]


\* ------------------------------------------------------- inference adapter
\* What the remote endpoint does for one call: an answer text or an exception
\* of the client; late = nothing arrived within config.process_timeout.
NoResp == [kind |-> "none", text |-> <<>>, late |-> FALSE]

\* texts the endpoint answers with in a job
JobTexts == { <<>>, <<"obj">>, <<"arr">>, <<"junk">> }

Responses ==
    [kind : {"text"}, text : JobTexts, late : {FALSE}]
    \cup [kind : {"text"}, text : {<<"obj">>}, late : {TRUE}]
    \cup [kind : {"error"}, text : {<<>>}, late : BOOLEAN]

\* call_resetdata_openai_api: <<response text, error_status, error_msg present>>.
\* config.process_timeout is not read: a late answer is an answer.
call_resetdata_openai_api(resp, llm_api_key) ==
    IF llm_api_key = ""
    THEN [has_json |-> FALSE, text |-> <<>>, error_status |-> ERROR_API, err |-> TRUE]
    ELSE IF resp.kind = "error"
    THEN [has_json |-> FALSE, text |-> <<>>, error_status |-> ERROR_API, err |-> TRUE]
    ELSE [has_json |-> TRUE, text |-> resp.text, error_status |-> "none", err |-> FALSE]

\* ------------------------------------------------------------- page task
NoOut == [page_number |-> 0, status |-> "none", data |-> NoData, raw_response |-> NoData]

\* PageProcessingResult(...): pydantic accepts data of type dict, str or None
PayloadTypes == { "none", "dict", "str" }

PageProcessingResult(page_number, status, data, raw_response) ==
    [raised |-> data.type \notin PayloadTypes,
     out |-> IF data.type \in PayloadTypes
             THEN [page_number |-> page_number, status |-> status,
                   data |-> data, raw_response |-> raw_response]
             ELSE NoOut]

\* _process_single_page, step 1 failed
ImageEncodingFailure(page_num) ==
    PageProcessingResult(page_num, ERROR_IMAGE_ENCODING, NoData, NoData)

\* the format compared whatever its case
requested_format_of_any_case(output_format) ==
    IF output_format \in { "json", "JSON" } THEN "application/json" ELSE "text/plain"

\* requested_format = "application/json" if output_format == "json" else
\* "text/plain" (line 88)
requested_format_of(output_format) ==
    IF output_format = "json" THEN "application/json" ELSE "text/plain"

\* _process_single_page, steps 2..5, run when the inference call has ended
ProcessAfterEncode(page_num, resp, output_format, llm_api_key) ==
    LET call == call_resetdata_openai_api(resp, llm_api_key)
        extracted_text == call.text
        requested_format == requested_format_of(output_format)
        parsed == parse_and_validate_ai_output(extracted_text, requested_format)
    IN  IF call.err
        THEN PageProcessingResult(page_num,
                 IF call.error_status # "none" THEN call.error_status ELSE ERROR_API,
                 NoData, NoData)
        ELSE IF extracted_text = <<>>
        THEN PageProcessingResult(page_num, ERROR_PARSING, NoData, StrData(<<"repr">>))
        ELSE IF parsed.err
        THEN PageProcessingResult(page_num,
                 IF parsed.status # "none" THEN parsed.status ELSE ERROR_PARSING,
                 parsed.data, StrData(first_1000(extracted_text)))
        ELSE PageProcessingResult(page_num, SUCCESS, parsed.data, NoData)

\* _process_single_page as a whole
process_single_page(page_num, img_ok, resp, output_format, llm_api_key) ==
    IF img_ok
    THEN ProcessAfterEncode(page_num, resp, output_format, llm_api_key)
    ELSE ImageEncodingFailure(page_num)

\* -------------------------------------------------------------- aggregator
\* the sort key negated: descending page numbers
RECURSIVE InsertByPage_descending(_, _)
InsertByPage_descending(sorted, r) ==
    IF sorted = <<>> THEN <<r>>
    ELSE IF sorted[Len(sorted)].page_number >= r.page_number
    THEN Append(sorted, r)
    ELSE Append(InsertByPage_descending(SubSeq(sorted, 1, Len(sorted) - 1), r),
                sorted[Len(sorted)])

\* sorted(page_results, key=page_number): stable insertion
RECURSIVE InsertByPage(_, _)
InsertByPage(sorted, r) ==
    IF sorted = <<>> THEN <<r>>
    ELSE IF sorted[Len(sorted)].page_number <= r.page_number
    THEN Append(sorted, r)
    ELSE Append(InsertByPage(SubSeq(sorted, 1, Len(sorted) - 1), r), sorted[Len(sorted)])

RECURSIVE SortedByPage(_)
SortedByPage(rs) ==
    IF rs = <<>> THEN <<>>
    ELSE InsertByPage(SortedByPage(SubSeq(rs, 1, Len(rs) - 1)), rs[Len(rs)])

\* the sort left out: outcomes stay in arrival order
sorted_page_results_arrival_order(page_results) == page_results

\* the outcomes left out of the result
sorted_page_results_dropped(page_results) == << >>

sorted_page_results(page_results) == SortedByPage(page_results)

ZeroCounts == [processed |-> 0, successful |-> 0, mock |-> 0, errors |-> 0]

\* `if` in place of the first `elif`: a SUCCESS outcome also falls to the else
CountOne_if_for_elif(c, status) ==
    IF status = SUCCESS
    THEN [c EXCEPT !.processed = @ + 1, !.successful = @ + 1, !.errors = @ + 1]
    ELSE IF status = MOCK_SUCCESS
    THEN [c EXCEPT !.processed = @ + 1, !.successful = @ + 1, !.mock = @ + 1]
    ELSE [c EXCEPT !.processed = @ + 1, !.errors = @ + 1]

\* the mock branch forgets to count the outcome as successful
CountOne_mock_not_successful(c, status) ==
    IF status = SUCCESS
    THEN [c EXCEPT !.processed = @ + 1, !.successful = @ + 1]
    ELSE IF status = MOCK_SUCCESS
    THEN [c EXCEPT !.processed = @ + 1, !.mock = @ + 1]
    ELSE [c EXCEPT !.processed = @ + 1, !.errors = @ + 1]

\* one iteration of the counting loop
CountOne(c, status) ==
    IF status = SUCCESS
    THEN [c EXCEPT !.processed = @ + 1, !.successful = @ + 1]
    ELSE IF status = MOCK_SUCCESS
    THEN [c EXCEPT !.processed = @ + 1, !.successful = @ + 1, !.mock = @ + 1]
    ELSE [c EXCEPT !.processed = @ + 1, !.errors = @ + 1]

RECURSIVE CountLoop(_)
CountLoop(rs) ==
    IF rs = <<>> THEN ZeroCounts
    ELSE CountOne(CountLoop(SubSeq(rs, 1, Len(rs) - 1)), rs[Len(rs)].status)

NoResult == [present |-> FALSE, summary |-> <<>>, pages |-> <<>>]

aggregate_processing_results(page_results, pdf_metadata) ==
    LET total_pages == Len(page_results)
        c == CountLoop(page_results)
    IN  [present |-> TRUE,
         summary |->
           [source_total_pages |->
                IF "pages" \in DOMAIN pdf_metadata THEN pdf_metadata["pages"] ELSE total_pages,
            processed_pages_count |-> c.processed,
            successful_pages_count |-> c.successful,
            mock_pages_count |-> c.mock,
            pages_with_errors_count |-> c.errors,
            pdf_metadata |-> pdf_metadata],
         pages |-> sorted_page_results(page_results)]


\* ------------------------------------------------------------------ state
VARIABLES
    cfg,              \* arguments of process_document_stateless, with the
                      \* is_image_input it derives from the suffix of the input
    pc,               \* position of the scan request / the job coroutine
    fs,               \* which of the job's files exist
    conversion,       \* what convert_to_pdf_libreoffice met and returned
    pdf_pages,        \* pages of the converted PDF (0: no PDF)
    meta_task,        \* extract_pdf_metadata task
    screenshot_task,  \* extract_pdf_pages_as_png task
    pdf_metadata,     \* dict handed to the aggregator
    screenshot_paths, \* number of page images; page k is the k-th of them
    meta_tasks,       \* context pre-pass page tasks
    meta_context,     \* payloads of the successful pre-pass pages, in page order
    tasks,            \* main-pass page tasks
    completed,        \* main-pass tasks in the order they settled (as_completed)
    page_results,     \* outcomes collected by the main pass
    final_results,    \* the AggregatedResult returned, if any
    error,            \* the exception leaving process_document_stateless, if any
    cleanup,          \* what the two deletions of the finally block did
    attempts,         \* how often each of the three tools was launched
    agg_in,           \* aggregator called on its own: the outcome list
    agg_out,          \* aggregator called on its own: the result
    page_in,          \* page task called on its own: what it meets
    page_out,         \* page task called on its own: the parse and the outcome
    scans,            \* several scan requests: the clock, each one's directory and upload
    summary_call,     \* the aggregator called twice on the same arguments
    subprocess,       \* run_subprocess_async called on its own
    conversion_call,  \* convert_to_pdf_libreoffice called on its own
    png_files,        \* extract_pdf_pages_as_png called on a directory listing
    admission,        \* one scan request from its credential check to its last page
    pdfinfo,          \* parse_pdfinfo_output called on its own
    stored_job        \* a job of InMemoryJobStore and the last call made on it

jobvars ==
    << cfg, pc, fs, conversion, pdf_pages, meta_task, screenshot_task, pdf_metadata,
       screenshot_paths, meta_tasks, meta_context, tasks, completed,
       page_results, final_results, error, cleanup, attempts >>

aggvars == << agg_in, agg_out >>

pagevars == << page_in, page_out >>

scanvars == << scans >>

\* the variables of the functions called on their own
unitvars == << summary_call, subprocess, conversion_call, png_files, admission, pdfinfo, stored_job >>







\* every variable of those but one
except_summary_call == << subprocess, conversion_call, png_files, admission, pdfinfo, stored_job >>
except_subprocess == << summary_call, conversion_call, png_files, admission, pdfinfo, stored_job >>
except_conversion_call == << summary_call, subprocess, png_files, admission, pdfinfo, stored_job >>
except_png_files == << summary_call, subprocess, conversion_call, admission, pdfinfo, stored_job >>
except_admission == << summary_call, subprocess, conversion_call, png_files, pdfinfo, stored_job >>
except_pdfinfo == << summary_call, subprocess, conversion_call, png_files, admission, stored_job >>
except_stored_job == << summary_call, subprocess, conversion_call, png_files, admission, pdfinfo >>

vars == << jobvars, aggvars, pagevars, scanvars, unitvars >>

Pages == 1 .. MaxLongPages

\* AppSettings.max_workers is read by no step of the job, so the state does
\* not hold it; these are the configured values a claim ranges over
WorkerLimits == 1 .. MaxWorkersCfg

\* a prompt: the template it was made from and the context put into it
NoPrompt == [template |-> "none", context |-> << >>]
META_PROMPT_TEMPLATE == [template |-> "meta", context |-> << >>]
user_prompt == [template |-> "user", context |-> << >>]

\* the context put before the user prompt although it is empty
final_user_prompt_always_with_context(context) ==
    [template |-> "context_then_user", context |-> context]

\* final_user_prompt (lines 426-428)
final_user_prompt(context) ==
    IF context # << >>
    THEN [template |-> "context_then_user", context |-> context]
    ELSE user_prompt

\* a page task; calls counts the inference calls it has made
NoTask ==
    [st |-> "none", resp |-> NoResp, out |-> NoOut, prompt |-> NoPrompt, calls |-> 0]
NewTask(prompt_to_use) ==
    [st |-> "created", resp |-> NoResp, out |-> NoOut, prompt |-> prompt_to_use,
     calls |-> 0]

AggPages == 1 .. MaxAggLen

AggMetadata ==
    { [source_type |-> "document"], [pages |-> MaxAggLen, source_type |-> "document"] }

NoTool == [st |-> "none", success |-> FALSE, returncode |-> 0, found |-> 0]

NoConversion ==
    [st |-> "none", returncode |-> 0, output_exists |-> FALSE, convert_success |-> FALSE]

\* tasks of a pass that were started and have not settled
InFlight(ts) == { p \in Pages : ts[p].st = "calling" }
Created(ts) == { p \in Pages : ts[p].st = "created" }

\* the image file of a page: the upload itself for an image input, else a
\* PNG under job_dir/screenshots
ImageExists(f) == IF cfg.is_image_input THEN f.input ELSE f.jobdir

\* a document of more than MaxPages page images: each page image is readable
\* and the endpoint answers each page with a JSON object
LongDocument == screenshot_paths > MaxPages

LongDocumentResponses == { [kind |-> "text", text |-> <<"obj">>, late |-> FALSE] }

JobResponses == IF LongDocument THEN LongDocumentResponses ELSE Responses

EncodeOutcomes == IF LongDocument THEN {TRUE} ELSE BOOLEAN

\* answers to the meta prompt: also the JSON null, a text that parses to a
\* payload that is not an object
PrePassResponses ==
    IF LongDocument THEN LongDocumentResponses
    ELSE Responses \cup { [kind |-> "text", text |-> <<"null">>, late |-> FALSE] }

\* every model text of at most MaxTextLen tokens
Texts == UNION { [1 .. n -> Tokens] : n \in 0 .. MaxTextLen }

\* output_format is a form field passed on as it came (main_api.py:156, 202)
OutputFormats == { "json", "text", "JSON", "xml" }

\* what one call of _process_single_page can meet: every text, or every
\* failure before the text
PageInputs ==
    [ img_ok : {TRUE}, llm_api_key : {"key"}, output_format : OutputFormats,
      resp : [kind : {"text"}, text : Texts, late : {FALSE}] ]
    \cup [ img_ok : BOOLEAN, llm_api_key : {"", "key"}, output_format : OutputFormats,
           resp : Responses ]

NoPageIn ==
    [img_ok |-> TRUE, llm_api_key |-> "key", output_format |-> "json", resp |-> NoResp]

NoPageOut ==
    [called |-> FALSE, parsed |-> [data |-> NoData, status |-> "none", err |-> FALSE],
     raised |-> FALSE, out |-> NoOut]

Requests == 1 .. MaxRequests

NoScan == [st |-> "none", job_dir |-> << >>, input |-> FALSE]

\* input_file_path.suffix of the uploads considered
Suffixes == { ".pdf", ".png", ".PNG", ".Jpg", ".jpeg", ".gif", ".bmp", ".webp" }

\* str.lower on a suffix
lower(suffix) ==
    CASE suffix = ".PNG" -> ".png"
      [] suffix = ".Jpg" -> ".jpg"
      [] OTHER -> suffix

image_extensions == { ".png", ".jpg", ".jpeg", ".gif", ".bmp", ".webp" }

\* the suffix compared as it is written
is_image_input_case_sensitive(suffix) == suffix \in image_extensions

\* is_image_input = input_file_path.suffix.lower() in image_extensions
is_image_input(suffix) == lower(suffix) \in image_extensions

\* no tool launched yet
NoAttempts == [converter |-> 0, rasterizer |-> 0, metadata |-> 0]

DefaultCfg ==
    [ output_format |-> "json", use_meta_intelligence |-> FALSE, suffix |-> ".pdf",
      is_image_input |-> FALSE, llm_api_key |-> "key" ]

\* ------------------------ the aggregator with its summary, called on its own
\* A user prompt is given by its length in characters. The snippet of line 63,
\* `user_prompt[:200] + "..." if len(user_prompt) > 200 else user_prompt`:
\* its length, how many leading characters of the prompt it keeps, and
\* whether the three dots follow
prompt_snippet(prompt_chars) ==
    IF prompt_chars > 200
    THEN [chars |-> 200 + 3, kept |-> 200, dots |-> TRUE]
    ELSE [chars |-> prompt_chars, kept |-> prompt_chars, dots |-> FALSE]

\* round(seconds, 2) of a time span given in milliseconds
round_2(ms) == ((ms + 5) \div 10) * 10

\* the fields of the summary read from the clock (lines 37, 58-60 and 73):
\* time.time() at the start, time.time() at the end, datetime.now()
summary_times(start_timestamp, aggregation_start_time, end_timestamp, now) ==
    [total_processing_time_seconds |-> round_2(end_timestamp - start_timestamp),
     aggregation_time_seconds |-> end_timestamp - aggregation_start_time,
     aggregation_timestamp |-> now]

\* processing_summary (lines 65-78) and AggregatedResult(...) (lines 83-87)
AggregatedResult(results, metadata, prompt_chars, start_timestamp, aggregation_start_time, end_timestamp, now) ==
    LET counted == aggregate_processing_results(results, metadata)
    IN  [present |-> TRUE,
         summary |-> [processing_prompt_used_snippet |-> prompt_snippet(prompt_chars)]
                     @@ summary_times(start_timestamp, aggregation_start_time,
                                      end_timestamp, now)
                     @@ counted.summary,
         pages |-> counted.pages]

\* what the call leaves in the list it was given: sorted() builds a new list
\* (line 81), the loop only reads (lines 48-56)
page_results_after_call(results) == results

\* what the call leaves in the metadata dict: it is read (line 41) and put
\* into the summary as it is (line 76)
pdf_metadata_after_call(metadata) == metadata

PromptChars == { 0, 200, MaxPromptChars }

SummaryOutcome(p, status) ==
    [page_number |-> p, status |-> status, data |-> NoData, raw_response |-> NoData]

SummaryArgs ==
    [ page_results : { << >>, << SummaryOutcome(2, ERROR_API), SummaryOutcome(1, SUCCESS) >> },
      pdf_metadata : AggMetadata,
      user_prompt : PromptChars,
      start_timestamp : {0} ]

NoSummaryCall ==
    [ args |-> [page_results |-> << >>, pdf_metadata |-> [source_type |-> "document"],
                user_prompt |-> 0, start_timestamp |-> 0],
      given |-> [page_results |-> << >>, pdf_metadata |-> [source_type |-> "document"],
                 user_prompt |-> 0, start_timestamp |-> 0],
      clock |-> 0, first |-> NoResult, second |-> NoResult ]

\* ------------------------------------ run_subprocess_async, called on its own
\* What asyncio.create_subprocess_exec and process.communicate() meet: the
\* executable is not found (FileNotFoundError), another exception of the
\* launch or of the reading of the pipes, the process exits with a code, or a
\* signal ends it (returncode is then minus the number of the signal)
ExitCodes == { 0, 1, 255 }

Signals == 1 .. MaxSignal

ProcessOutcomes ==
    [how : {"not_found", "launch_error"}, code : {0}]
    \cup [how : {"exited"}, code : ExitCodes]
    \cup [how : {"signalled"}, code : Signals]

\* run_subprocess_async (lines 31-70): the return code it hands back, and
\* whether an exception leaves it
run_subprocess_async(outcome) ==
    [return_code |-> CASE outcome.how = "not_found" -> 0 - 1
                       [] outcome.how = "launch_error" -> 0 - 2
                       [] outcome.how = "signalled" -> 0 - outcome.code
                       [] OTHER -> outcome.code,
     raised |-> FALSE]

NoSubprocess ==
    [called |-> FALSE, outcome |-> [how |-> "none", code |-> 0],
     return_code |-> 0, raised |-> FALSE]

\* ------------------------------ convert_to_pdf_libreoffice, called on its own
NoConversionCall ==
    [called |-> FALSE,
     met |-> [input_exists |-> TRUE, mkdir_ok |-> TRUE, returncode |-> 0,
              output_exists |-> FALSE, unlink_ok |-> TRUE],
     result |-> [success |-> FALSE, output_left |-> FALSE, unlink_called |-> FALSE,
                 raised |-> FALSE]]

\* ------------------- the page list of extract_pdf_pages_as_png, on its own
NoPngFiles == [globbed |-> << >>, called |-> FALSE, generated_files |-> << >>]

\* ---------------------------- the admission of a scan request, on its own
\* the x-resetdata-key header or resetdata_key query parameter of the request
Credentials == { "", "valid", "revoked" }

NoAdmission ==
    [key |-> "valid", st |-> "arrived", probes |-> 0, job_dir |-> FALSE,
     pages_left |-> 0, page_calls |-> 0]

\* --------------------------------- parse_pdfinfo_output, called on its own
NoPdfinfo == [called |-> FALSE, stdout |-> << >>, metadata |-> << >>, raised |-> FALSE]

\* --------------------------------------------- the job store on its own
\* Job as create_job stores it (job_store.py:83-93, models.py:97-114):
\* progress stands for the float, completed_at and results for "is not None",
\* errors for len(errors); calls and last are the history of the calls
NoStoreCall ==
    [op |-> "none", known |-> TRUE, recoverable |-> FALSE, returned |-> FALSE]

NewJob ==
    [status |-> "created", progress |-> 0, completed_at |-> FALSE, results |-> FALSE,
     errors |-> 0, calls |-> 0, last |-> NoStoreCall]

\* Four entry points: a scan request whose upload has been saved under its
\* job directory (pc = "start"), the aggregator called on a list of outcomes
\* by itself (pc = "aggregator"), one page task called by itself
\* (pc = "page"), and several scan requests arriving side by side
\* (pc = "scans")
Init ==
    /\ cfg \in [ output_format : {"json", "text"},
                 use_meta_intelligence : BOOLEAN,
                 suffix : Suffixes,
                 is_image_input : BOOLEAN,
                 llm_api_key : {"key"} ]
    /\ cfg.is_image_input = is_image_input(cfg.suffix)
    /\ pc \in {"start", "aggregator", "page", "scans", "summary", "subprocess", "convert", "rasterizer", "admission", "pdfinfo", "jobstore"}
    /\ fs \in [ input : BOOLEAN, jobdir : {TRUE} ]
    /\ pc # "start" => cfg = DefaultCfg /\ fs.input
    /\ conversion = NoConversion
    /\ pdf_pages = 0
    /\ meta_task = NoTool
    /\ screenshot_task = NoTool
    /\ pdf_metadata = << >>
    /\ screenshot_paths = 0
    /\ meta_tasks = [p \in Pages |-> NoTask]
    /\ meta_context = << >>
    /\ tasks = [p \in Pages |-> NoTask]
    /\ completed = << >>
    /\ page_results = << >>
    /\ final_results = NoResult
    /\ error = "none"
    /\ attempts = NoAttempts
    /\ cleanup = [ran |-> FALSE, unlink_failed |-> FALSE, rmtree_called |-> FALSE,
                  rmtree_failed |-> FALSE]
    /\ agg_in \in [ page_results : {<< >>}, pdf_metadata : AggMetadata ]
    /\ pc # "aggregator" => agg_in.pdf_metadata = [source_type |-> "document"]
    /\ agg_out = NoResult
    /\ page_in = NoPageIn
    /\ page_out = NoPageOut
    /\ scans = [clock |-> 0, req |-> [r \in Requests |-> NoScan]]
    /\ summary_call \in [ args : SummaryArgs, given : SummaryArgs, clock : {0},
                        first : {NoResult}, second : {NoResult} ]
    /\ summary_call.given = summary_call.args
    /\ pc # "summary" => summary_call = NoSummaryCall
    /\ subprocess = NoSubprocess
    /\ conversion_call = NoConversionCall
    /\ png_files = NoPngFiles
    /\ admission \in [ key : Credentials, st : {"arrived"}, probes : {0},
                     job_dir : {FALSE}, pages_left : {0}, page_calls : {0} ]
    /\ pc # "admission" => admission = NoAdmission
    /\ pdfinfo = NoPdfinfo
    /\ stored_job = NewJob

\* raise inside the try block: control goes to the finally block
Raise(e) ==
    /\ error' = e
    /\ pc' = "finally"

\* the existence test left out
input_file_exists_not_tested(f) == TRUE

\* input_file_path.exists()
input_file_exists(f) == f.input

\* Validation and the image shortcut (lines 359-368)
Validate ==
    /\ pc = "start"
    /\ IF ~input_file_exists(fs)
       THEN /\ Raise("ValueError: input file not found")
            /\ UNCHANGED << pdf_metadata, screenshot_paths >>
       ELSE IF cfg.is_image_input
       THEN /\ screenshot_paths' = 1
            /\ pdf_metadata' = [pages |-> 1, source_type |-> "image"]
            /\ pc' = "meta_pass"
            /\ error' = error
       ELSE /\ pc' = "converting"
            /\ UNCHANGED << pdf_metadata, screenshot_paths, error >>
    /\ UNCHANGED << cfg, attempts, conversion, fs, pdf_pages, meta_task, screenshot_task, meta_tasks,
                    meta_context, tasks, completed, page_results, final_results,
                    cleanup, aggvars, pagevars, scanvars, unitvars >>

\* run_subprocess_async: the exit code of the tool (0, or 1 for any other
\* exit code), or -1 when the command could not be launched
LaunchFailed == 0 - 1
ToolReturnCodes == { 0, 1, LaunchFailed }

\* success decided by the exit code of soffice
convert_success_by_exit_code(returncode, output_exists) == returncode = 0

\* convert_to_pdf_libreoffice: success iff exit code 0 and the output exists
convert_success(returncode, output_exists) == returncode = 0 /\ output_exists

\* await convert_to_pdf_libreoffice(...) and the two create_task calls (371-377)
Convert ==
    /\ pc = "converting"
    /\ \E returncode \in ToolReturnCodes, output_exists \in BOOLEAN, n \in 1 .. MaxLongPages :
          /\ returncode = LaunchFailed => ~output_exists
          /\ conversion' = [st |-> "done", returncode |-> returncode,
                            output_exists |-> output_exists,
                            convert_success |-> convert_success(returncode, output_exists)]
          /\ IF convert_success(returncode, output_exists)
             THEN /\ pdf_pages' = n
                  /\ meta_task' = [NoTool EXCEPT !.st = "running"]
                  /\ screenshot_task' = [NoTool EXCEPT !.st = "running"]
                  /\ attempts' = [attempts EXCEPT !.converter = @ + 1,
                                                   !.rasterizer = @ + 1,
                                                   !.metadata = @ + 1]
                  /\ pc' = "rastermeta"
                  /\ error' = error
             ELSE /\ Raise("RuntimeError: document conversion failed")
                  /\ attempts' = [attempts EXCEPT !.converter = @ + 1]
                  /\ UNCHANGED << pdf_pages, meta_task, screenshot_task >>
    /\ UNCHANGED << cfg, fs, pdf_metadata, screenshot_paths, meta_tasks,
                    meta_context, tasks, completed, page_results, final_results,
                    cleanup, aggvars, pagevars, scanvars, unitvars >>

\* extract_pdf_metadata: pdfinfo ends (exit code 0 or not, or it could not be
\* launched; with or without a Pages line)
MetadataToolEnds ==
    /\ meta_task.st = "running"
    /\ \E returncode \in ToolReturnCodes, has_pages \in BOOLEAN :
          meta_task' = [st |-> "done", success |-> returncode = 0,
                        returncode |-> returncode,
                        found |-> IF returncode = 0 /\ has_pages THEN pdf_pages ELSE 0]
    /\ UNCHANGED << cfg, attempts, conversion, pc, fs, pdf_pages, screenshot_task, pdf_metadata,
                    screenshot_paths, meta_tasks, meta_context, tasks, completed,
                    page_results, final_results, error, cleanup, aggvars, pagevars, scanvars, unitvars >>

\* success decided by the exit code of pdftoppm
extract_success_by_exit_code(returncode, generated_files) == returncode = 0

\* success needs the exit code 0 as well
extract_success_needs_exit_zero(returncode, generated_files) ==
    generated_files > 0 /\ returncode = 0

\* extract_pdf_pages_as_png: success iff at least one PNG was found
extract_success(returncode, generated_files) == generated_files > 0

\* extract_pdf_pages_as_png: the message returned third: the warning text when
\* files were found after a non-zero exit, the error text when none were,
\* else the empty string
extract_message(returncode, generated_files) ==
    IF generated_files > 0
    THEN IF returncode # 0 THEN "warning" ELSE ""
    ELSE "error"

\* extract_pdf_pages_as_png: pdftoppm ends having left some PNG files
RasterToolEnds ==
    /\ screenshot_task.st = "running"
    /\ \E returncode \in ToolReturnCodes, generated_files \in 0 .. pdf_pages :
          /\ returncode = LaunchFailed => generated_files = 0
          /\ pdf_pages > MaxPages => generated_files \in {0, pdf_pages}
          /\ screenshot_task' = [st |-> "done",
                                 success |-> extract_success(returncode, generated_files),
                                 returncode |-> returncode,
                                 found |-> generated_files,
                                 message |-> extract_message(returncode, generated_files)]
    /\ UNCHANGED << cfg, attempts, conversion, pc, fs, pdf_pages, meta_task, pdf_metadata,
                    screenshot_paths, meta_tasks, meta_context, tasks, completed,
                    page_results, final_results, error, cleanup, aggvars, pagevars, scanvars, unitvars >>

\* parse_pdfinfo_output plus the source_type tag (lines 380-384)
MetadataOf(mt) ==
    IF mt.success /\ mt.found > 0
    THEN [pages |-> mt.found, source_type |-> "document"]
    ELSE [source_type |-> "document"]

\* await meta_task; await screenshot_task (lines 379-390)
JoinRasterMeta ==
    /\ pc = "rastermeta"
    /\ meta_task.st = "done"
    /\ screenshot_task.st = "done"
    /\ pdf_metadata' = MetadataOf(meta_task)
    /\ screenshot_task' = NoTool
    /\ IF ~screenshot_task.success \/ screenshot_task.found = 0
       THEN /\ Raise("RuntimeError: screenshot generation failed")
            /\ UNCHANGED screenshot_paths
       ELSE /\ screenshot_paths' = screenshot_task.found
            /\ pc' = "meta_pass"
            /\ error' = error
    /\ UNCHANGED << cfg, attempts, conversion, fs, pdf_pages, meta_task, meta_tasks,
                    meta_context, tasks, completed, page_results, final_results,
                    cleanup, aggvars, pagevars, scanvars, unitvars >>

\* The optional meta pass is entered: its tasks are created (lines 393-409)
\* the pre-pass taking every page
MetaPages_every_page == 1 .. screenshot_paths

MetaPages == 1 .. (IF screenshot_paths < MAX_META_PAGES THEN screenshot_paths ELSE MAX_META_PAGES)

\* the pre-pass run for an image too
runs_meta_pass_for_images_too(use_meta_intelligence, image_input) ==
    use_meta_intelligence

\* `if use_meta_intelligence and not is_image_input` (line 393)
runs_meta_pass(use_meta_intelligence, image_input) ==
    use_meta_intelligence /\ ~image_input

MetaPassLaunch ==
    /\ pc = "meta_pass"
    /\ IF runs_meta_pass(cfg.use_meta_intelligence, cfg.is_image_input)
       THEN /\ meta_tasks' = [p \in Pages |-> IF p \in MetaPages
                                               THEN NewTask(META_PROMPT_TEMPLATE)
                                               ELSE NoTask]
            /\ pc' = "meta_gather"
       ELSE /\ pc' = "main_pass"
            /\ UNCHANGED meta_tasks
    /\ UNCHANGED << cfg, attempts, conversion, fs, pdf_pages, meta_task, screenshot_task, pdf_metadata,
                    screenshot_paths, meta_context, tasks, completed, page_results,
                    final_results, error, cleanup, aggvars, pagevars, scanvars, unitvars >>

\* First run of a page task: encode_image_to_base64, then the inference call
\* is handed to a thread. Tasks first run in the order they were created.
FirstStep(ts, p, img_ok) ==
    IF img_ok
    THEN [ts EXCEPT ![p].st = "calling", ![p].calls = @ + 1]
    ELSE [ts EXCEPT ![p] = [st |-> "done", resp |-> NoResp, prompt |-> ts[p].prompt,
                            calls |-> ts[p].calls,
                            out |-> ImageEncodingFailure(p).out]]

ResumeStep_retries_failed_call(ts, p, resp, output_format) ==
    IF resp.kind = "error"
    THEN [ts EXCEPT ![p].st = "created"]
    ELSE LET r == ProcessAfterEncode(p, resp, output_format, cfg.llm_api_key)
         IN  [ts EXCEPT ![p] = [st |-> IF r.raised THEN "raised" ELSE "done",
                                prompt |-> ts[p].prompt, calls |-> ts[p].calls,
                                resp |-> resp, out |-> r.out]]

\* The thread of the inference call has ended and the task runs to its end
ResumeStep(ts, p, resp, output_format) ==
    LET r == ProcessAfterEncode(p, resp, output_format, cfg.llm_api_key)
    IN  [ts EXCEPT ![p] = [st |-> IF r.raised THEN "raised" ELSE "done",
                           prompt |-> ts[p].prompt, calls |-> ts[p].calls,
                           resp |-> resp, out |-> r.out]]

NextToStart(ts, p) == p \in Created(ts) /\ \A q \in Created(ts) : p <= q

MetaPageStart(p) ==
    /\ NextToStart(meta_tasks, p)
    /\ \E img_ok \in EncodeOutcomes :
          /\ img_ok => ImageExists(fs)
          /\ meta_tasks' = FirstStep(meta_tasks, p, img_ok)
    /\ UNCHANGED << cfg, attempts, conversion, pc, fs, pdf_pages, meta_task, screenshot_task, pdf_metadata,
                    screenshot_paths, meta_context, tasks, completed, page_results,
                    final_results, error, cleanup, aggvars, pagevars, scanvars, unitvars >>

MetaPageResume(p) ==
    /\ meta_tasks[p].st = "calling"
    /\ Created(meta_tasks) = {}
    /\ \E resp \in PrePassResponses :
          meta_tasks' = ResumeStep(meta_tasks, p, resp, "json")
    /\ UNCHANGED << cfg, attempts, conversion, pc, fs, pdf_pages, meta_task, screenshot_task, pdf_metadata,
                    screenshot_paths, meta_context, tasks, completed, page_results,
                    final_results, error, cleanup, aggvars, pagevars, scanvars, unitvars >>

\* successful_meta_results: payloads of the pre-pass tasks that returned a
\* SUCCESS outcome holding a dict, in page order (lines 412-415)
RECURSIVE successful_meta_results(_, _)
successful_meta_results(ts, n) ==
    IF n = 0 THEN << >>
    ELSE LET rest == successful_meta_results(ts, n - 1)
         IN  IF /\ ts[n].st = "done"
                /\ ts[n].out.status = SUCCESS
                /\ ts[n].out.data.type = "dict"
             THEN Append(rest, ts[n].out.data)
             ELSE rest

\* the pages the entries of successful_meta_results came from: the index i
\* of `for i, res in enumerate(meta_results_raw)` under the same test
\* (lines 413-415)
RECURSIVE successful_meta_pages(_, _)
successful_meta_pages(ts, n) ==
    IF n = 0 THEN << >>
    ELSE LET rest == successful_meta_pages(ts, n - 1)
         IN  IF /\ ts[n].st = "done"
                /\ ts[n].out.status = SUCCESS
                /\ ts[n].out.data.type = "dict"
             THEN Append(rest, n)
             ELSE rest

\* entries numbered by the index of enumerate, from 0
meta_context_block_numbered_from_0(results) ==
    [header_count |-> Len(results),
     entries |-> [i \in 1 .. Len(results) |-> [number |-> i - 1, data |-> results[i]]]]

\* the text of the context (lines 417-421): a header stating
\* len(successful_meta_results), then one line "- Page {i+1}: {data}" for
\* each entry, i counting from 0
meta_context_block(results) ==
    [header_count |-> Len(results),
     entries |-> [i \in 1 .. Len(results) |-> [number |-> i, data |-> results[i]]]]

\* gather returning as soon as it is awaited
gather_returns_without_waiting(ts, pages) == TRUE

\* asyncio.gather returns when each of the tasks has returned or raised
gather_returns(ts, pages) == \A p \in pages : ts[p].st \in {"done", "raised"}

\* await asyncio.gather(*meta_tasks, return_exceptions=True) and the
\* synthesis of the context (lines 411-421)
MetaGather ==
    /\ pc = "meta_gather"
    /\ gather_returns(meta_tasks, MetaPages)
    /\ meta_context' = successful_meta_results(meta_tasks, Cardinality(MetaPages))
    /\ meta_tasks' = [p \in Pages |-> NoTask]
    /\ pc' = "main_pass"
    /\ UNCHANGED << cfg, attempts, conversion, fs, pdf_pages, meta_task, screenshot_task, pdf_metadata,
                    screenshot_paths, tasks, completed, page_results,
                    final_results, error, cleanup, aggvars, pagevars, scanvars, unitvars >>

\* The main pass creates one task per page (lines 424-443)
MainPages == 1 .. screenshot_paths

MainPassLaunch ==
    /\ pc = "main_pass"
    /\ tasks' = [p \in Pages |-> IF p \in MainPages
                                  THEN NewTask(final_user_prompt(meta_context))
                                  ELSE NoTask]
    /\ pc' = "collecting"
    /\ UNCHANGED << cfg, attempts, conversion, fs, pdf_pages, meta_task, screenshot_task, pdf_metadata,
                    screenshot_paths, meta_tasks, meta_context, completed,
                    page_results, final_results, error, cleanup, aggvars, pagevars, scanvars, unitvars >>

PageStart(p) ==
    /\ NextToStart(tasks, p)
    /\ \E img_ok \in EncodeOutcomes :
          /\ img_ok => ImageExists(fs)
          /\ tasks' = FirstStep(tasks, p, img_ok)
          /\ completed' = IF img_ok THEN completed ELSE Append(completed, p)
    /\ UNCHANGED << cfg, attempts, conversion, pc, fs, pdf_pages, meta_task, screenshot_task, pdf_metadata,
                    screenshot_paths, meta_tasks, meta_context, page_results,
                    final_results, error, cleanup, aggvars, pagevars, scanvars, unitvars >>

PageResume(p) ==
    /\ tasks[p].st = "calling"
    /\ Created(tasks) = {}
    /\ \E resp \in JobResponses :
          tasks' = ResumeStep(tasks, p, resp, cfg.output_format)
    /\ completed' = Append(completed, p)
    /\ UNCHANGED << cfg, attempts, conversion, pc, fs, pdf_pages, meta_task, screenshot_task, pdf_metadata,
                    screenshot_paths, meta_tasks, meta_context, page_results,
                    final_results, error, cleanup, aggvars, pagevars, scanvars, unitvars >>

\* One turn of `for future in asyncio.as_completed(tasks): result = await
\* future; page_results.append(result)`: the next settled task, in settling
\* order; an exception of the task is raised by the await (lines 445-447)
CollectStep(results, task) == Append(results, task.out)

Collect ==
    /\ pc = "collecting"
    /\ Created(tasks) = {}
    /\ completed # << >>
    /\ LET p == Head(completed)
       IN  /\ completed' = Tail(completed)
           /\ IF tasks[p].st = "raised"
              THEN /\ Raise("ValidationError: page task raised")
                   /\ UNCHANGED page_results
              ELSE /\ page_results' = CollectStep(page_results, tasks[p])
                   /\ UNCHANGED << pc, error >>
    /\ UNCHANGED << cfg, attempts, conversion, fs, pdf_pages, meta_task, screenshot_task, pdf_metadata,
                    screenshot_paths, meta_tasks, meta_context, tasks,
                    final_results, cleanup, aggvars, pagevars, scanvars, unitvars >>

\* After the loop: the zero-outcome check and the aggregation (lines 450-461)
Aggregate ==
    /\ pc = "collecting"
    /\ Len(page_results) = screenshot_paths
    /\ IF page_results = << >> /\ screenshot_paths > 0
       THEN /\ Raise("RuntimeError: aggregation failed")
            /\ UNCHANGED final_results
       ELSE /\ final_results' = aggregate_processing_results(page_results, pdf_metadata)
            /\ pc' = "finally"
            /\ error' = error
    /\ UNCHANGED << cfg, attempts, conversion, fs, pdf_pages, meta_task, screenshot_task, pdf_metadata,
                    screenshot_paths, meta_tasks, meta_context, tasks, completed,
                    page_results, cleanup, aggvars, pagevars, scanvars, unitvars >>


\* The two deletions of the finally block (lines 465-476). The upload lies
\* under the job directory (main_api.py lines 167-180), so a complete rmtree
\* removes it too; a failed rmtree may have removed part of the tree.
\* the job directory is kept (as the deprecated workflow does after an error)
CleanupFiles_keeps_job_dir(f, unlink_ok, rmtree) ==
    [input |-> IF f.input /\ unlink_ok THEN FALSE ELSE f.input, jobdir |-> f.jobdir]

CleanupFiles(f, unlink_ok, rmtree) ==
    LET input1 == IF f.input /\ unlink_ok THEN FALSE ELSE f.input
    IN  IF ~f.jobdir THEN [input |-> input1, jobdir |-> FALSE]
        ELSE IF rmtree = "ok" THEN [input |-> FALSE, jobdir |-> FALSE]
        ELSE IF rmtree = "partial" THEN [input |-> FALSE, jobdir |-> TRUE]
        ELSE [input |-> input1, jobdir |-> TRUE]

\* the OSError of a deletion leaving the finally block
exception_after_cleanup_not_caught(e, unlink_failed, rmtree_failed) ==
    IF unlink_failed \/ rmtree_failed THEN "OSError: cleanup failed" ELSE e

\* the exception that leaves the function after the finally block: both
\* deletions are wrapped in try/except OSError, which only logs
exception_after_cleanup(e, unlink_failed, rmtree_failed) == e

Finally ==
    /\ pc = "finally"
    /\ \E unlink_ok \in BOOLEAN, rmtree \in {"ok", "partial", "failed"} :
          /\ fs' = CleanupFiles(fs, unlink_ok, rmtree)
          /\ cleanup' = [ran |-> TRUE,
                         unlink_failed |-> fs.input /\ ~unlink_ok,
                         rmtree_called |-> fs.jobdir,
                         rmtree_failed |-> fs.jobdir /\ rmtree # "ok"]
    /\ error' = exception_after_cleanup(error, cleanup'.unlink_failed,
                                        cleanup'.rmtree_failed)
    /\ pc' = IF error' = "none" THEN "returned" ELSE "raised"
    /\ UNCHANGED << cfg, attempts, conversion, pdf_pages, meta_task, screenshot_task, pdf_metadata,
                    screenshot_paths, meta_tasks, meta_context, tasks, completed,
                    page_results, final_results, aggvars, pagevars, scanvars, unitvars >>

\* scan_document returns the result (main_api.py line 208)
ScanReturn ==
    /\ pc = "returned"
    /\ pc' = "http_200"
    /\ UNCHANGED << cfg, attempts, conversion, fs, pdf_pages, meta_task, screenshot_task, pdf_metadata,
                    screenshot_paths, meta_tasks, meta_context, tasks, completed,
                    page_results, final_results, error, cleanup, aggvars, pagevars, scanvars, unitvars >>

\* scan_document's except branch: rmtree(job_dir, ignore_errors=True), then
\* HTTP 500 (main_api.py lines 209-212)
ScanFail ==
    /\ pc = "raised"
    /\ \E rmtree \in {"ok", "partial", "failed"} :
          fs' = CleanupFiles(fs, FALSE, rmtree)
    /\ pc' = "http_500"
    /\ UNCHANGED << cfg, attempts, conversion, pdf_pages, meta_task, screenshot_task, pdf_metadata,
                    screenshot_paths, meta_tasks, meta_context, tasks, completed,
                    page_results, final_results, error, cleanup, aggvars, pagevars, scanvars, unitvars >>

\* ------------------------------------------- the aggregator called by itself
\* The caller builds a list of outcomes, one per page number, in any order
AggAppend(p, status) ==
    /\ pc = "aggregator"
    /\ Len(agg_in.page_results) < MaxAggLen
    /\ \A i \in 1 .. Len(agg_in.page_results) : agg_in.page_results[i].page_number # p
    /\ agg_in' = [agg_in EXCEPT !.page_results =
                     Append(@, [page_number |-> p, status |-> status,
                                data |-> NoData, raw_response |-> NoData])]
    /\ agg_out' = NoResult
    /\ UNCHANGED << jobvars, pagevars, scanvars, unitvars >>

AggCall ==
    /\ pc = "aggregator"
    /\ ~agg_out.present
    /\ agg_out' = aggregate_processing_results(agg_in.page_results, agg_in.pdf_metadata)
    /\ UNCHANGED << jobvars, agg_in, pagevars, scanvars, unitvars >>

\* ------------------------------------------- the page task called by itself
PageTaskCall ==
    /\ pc = "page"
    /\ ~page_out.called
    /\ \E in \in PageInputs :
          LET requested_format == requested_format_of(in.output_format)
              r == process_single_page(1, in.img_ok, in.resp, in.output_format,
                                       in.llm_api_key)
          IN  /\ page_in' = in
              /\ page_out' = [called |-> TRUE,
                              parsed |-> parse_and_validate_ai_output(in.resp.text,
                                                                      requested_format),
                              raised |-> r.raised,
                              out |-> r.out]
    /\ UNCHANGED << jobvars, aggvars, scanvars, unitvars >>

\* ------------------------------------------ scan requests side by side
\* req_id = f"req_{int(time.time() * 1000)}_{os.urandom(4).hex()}"
req_id(ms, random) == << ms, random >>

\* time.time() moves on
ClockTick ==
    /\ pc = "scans"
    /\ scans.clock < MaxClockMs
    /\ scans' = [scans EXCEPT !.clock = @ + 1]
    /\ UNCHANGED << jobvars, aggvars, pagevars, unitvars >>

\* scan_document up to its first await: the request id is drawn, the
\* directory is made with exist_ok=True and the upload is saved under it
\* (main_api.py lines 165-186)
ScanArrive(r) ==
    /\ pc = "scans"
    /\ scans.req[r].st = "none"
    /\ \E random \in 0 .. MaxRandom :
          scans' = [scans EXCEPT !.req[r] =
                       [st |-> "processing", job_dir |-> req_id(scans.clock, random),
                        input |-> TRUE]]
    /\ UNCHANGED << jobvars, aggvars, pagevars, unitvars >>

\* shutil.rmtree(job_dir): every file under the directory goes, whichever
\* request saved it
shutil_rmtree(req, job_dir) ==
    [q \in DOMAIN req |->
        IF req[q].job_dir = job_dir THEN [req[q] EXCEPT !.input = FALSE] ELSE req[q]]

\* the job of the request ends: the finally block of
\* process_document_stateless deletes its input and its job directory
ScanCleanup(r) ==
    /\ pc = "scans"
    /\ scans.req[r].st = "processing"
    /\ scans' = [scans EXCEPT !.req =
                     [shutil_rmtree(@, @[r].job_dir) EXCEPT ![r].st = "done"]]
    /\ UNCHANGED << jobvars, aggvars, pagevars, unitvars >>

\* ----------------------------------- the aggregator with its summary: steps
\* time passes between, before and after the calls
SummaryClockTick ==
    /\ pc = "summary"
    /\ summary_call.clock < MaxClockMs
    /\ summary_call' = [summary_call EXCEPT !.clock = @ + 1]
    /\ UNCHANGED << jobvars, aggvars, pagevars, scanvars, except_summary_call >>

\* aggregate_processing_results(...) with its three readings of the clock
SummaryCall ==
    /\ pc = "summary"
    /\ ~summary_call.second.present
    /\ \E t1, t2, t3 \in summary_call.clock .. MaxClockMs :
          /\ t1 <= t2 /\ t2 <= t3
          /\ LET a == summary_call.args
                 r == AggregatedResult(a.page_results, a.pdf_metadata, a.user_prompt,
                                       a.start_timestamp, t1, t2, t3)
             IN  summary_call' =
                   [summary_call EXCEPT
                      !.clock = t3,
                      !.args.page_results = page_results_after_call(@),
                      !.args.pdf_metadata = pdf_metadata_after_call(@),
                      !.first = IF summary_call.first.present THEN @ ELSE r,
                      !.second = IF summary_call.first.present THEN r ELSE @]
    /\ UNCHANGED << jobvars, aggvars, pagevars, scanvars, except_summary_call >>

\* ------------------------------------------------ run_subprocess_async: steps
SubprocessRun ==
    /\ pc = "subprocess"
    /\ ~subprocess.called
    /\ \E outcome \in ProcessOutcomes :
          LET r == run_subprocess_async(outcome)
          IN  subprocess' = [called |-> TRUE, outcome |-> outcome,
                             return_code |-> r.return_code, raised |-> r.raised]
    /\ UNCHANGED << jobvars, aggvars, pagevars, scanvars, except_subprocess >>

\* ------------------------------------------ convert_to_pdf_libreoffice: steps
\* the partial output is kept
removes_partial_output_never(returncode, output_exists) == FALSE

\* `if output_pdf_path.exists() and returncode != 0` (line 90)
removes_partial_output(returncode, output_exists) == output_exists /\ returncode # 0

\* convert_to_pdf_libreoffice (lines 31-97) on an output directory that holds
\* no PDF yet: what it returns, whether the expected PDF exists afterwards,
\* whether it tried to delete it, and whether an exception leaves it.
\* unlink_ok: output_pdf_path.unlink() does not raise OSError
convert_to_pdf_libreoffice(input_exists, mkdir_ok, returncode, output_exists, unlink_ok) ==
    IF ~input_exists \/ ~mkdir_ok
    THEN [success |-> FALSE, output_left |-> FALSE, unlink_called |-> FALSE,
          raised |-> FALSE]
    ELSE IF convert_success(returncode, output_exists)
    THEN [success |-> TRUE, output_left |-> TRUE, unlink_called |-> FALSE,
          raised |-> FALSE]
    ELSE IF removes_partial_output(returncode, output_exists)
    THEN [success |-> FALSE, output_left |-> ~unlink_ok, unlink_called |-> TRUE,
          raised |-> FALSE]
    ELSE [success |-> FALSE, output_left |-> output_exists, unlink_called |-> FALSE,
          raised |-> FALSE]

\* what one call meets: the input, the mkdir of the output directory, the run
\* of soffice and the deletion
ConversionCalls ==
    { c \in [ input_exists : BOOLEAN, mkdir_ok : BOOLEAN,
              returncode : ToolReturnCodes \cup { 0 - 2 },
              output_exists : BOOLEAN, unlink_ok : BOOLEAN ] :
        /\ c.returncode \in { 0 - 1, 0 - 2 } => ~c.output_exists
        /\ (~c.input_exists \/ ~c.mkdir_ok) => (c.returncode = 0 /\ ~c.output_exists)
        /\ ~c.output_exists => c.unlink_ok }

ConversionCall ==
    /\ pc = "convert"
    /\ ~conversion_call.called
    /\ \E c \in ConversionCalls :
          conversion_call' =
              [called |-> TRUE, met |-> c,
               result |-> convert_to_pdf_libreoffice(c.input_exists, c.mkdir_ok,
                              c.returncode, c.output_exists, c.unlink_ok)]
    /\ UNCHANGED << jobvars, aggvars, pagevars, scanvars, except_conversion_call >>

\* -------------------------- the page list of extract_pdf_pages_as_png: steps
\* A generated file `<prefix>-<digits>.png` is given by its digits, a
\* sequence such as << 1, 0 >>. pdftoppm writes each page number once.
FileNames == { << 1 >>, << 2 >>, << 9 >>, << 1, 0 >> }

\* int(re.search(r'-(\d+)\.png$', str(p)).group(1)) (line 72)
RECURSIVE int_of_digits(_)
int_of_digits(digits) ==
    IF digits = << >> THEN 0
    ELSE 10 * int_of_digits(SubSeq(digits, 1, Len(digits) - 1)) + digits[Len(digits)]

\* the order of the file names as strings
RECURSIVE comes_before_as_string(_, _)
comes_before_as_string(a, b) ==
    IF a = << >> THEN TRUE
    ELSE IF b = << >> THEN FALSE
    ELSE IF a[1] # b[1] THEN a[1] < b[1]
    ELSE comes_before_as_string(Tail(a), Tail(b))

\* the order of the sort key of line 72
comes_before(a, b) == int_of_digits(a) <= int_of_digits(b)

\* sorted(list(output_dir.glob(...)), key=...) (lines 70-73): stable insertion
RECURSIVE InsertFile(_, _)
InsertFile(sorted, f) ==
    IF sorted = << >> THEN << f >>
    ELSE IF comes_before(sorted[Len(sorted)], f)
    THEN Append(sorted, f)
    ELSE Append(InsertFile(SubSeq(sorted, 1, Len(sorted) - 1), f), sorted[Len(sorted)])

RECURSIVE sorted_generated_files(_)
sorted_generated_files(globbed) ==
    IF globbed = << >> THEN << >>
    ELSE InsertFile(sorted_generated_files(SubSeq(globbed, 1, Len(globbed) - 1)),
                    globbed[Len(globbed)])

\* `for i, screenshot_path in enumerate(screenshot_paths): page_num = i + 1`
\* (workflow_orchestrator.py lines 430-435): the image of page page_num
screenshot_path_of_page(paths, page_num) == paths[page_num]

\* output_dir.glob yields the files in the order of the directory, which is
\* any order
PngFileListed(f) ==
    /\ pc = "rasterizer"
    /\ ~png_files.called
    /\ \A i \in DOMAIN png_files.globbed : png_files.globbed[i] # f
    /\ png_files' = [png_files EXCEPT !.globbed = Append(@, f)]
    /\ UNCHANGED << jobvars, aggvars, pagevars, scanvars, except_png_files >>

PngFilesSorted ==
    /\ pc = "rasterizer"
    /\ ~png_files.called
    /\ png_files' = [png_files EXCEPT !.called = TRUE,
                                      !.generated_files =
                                          sorted_generated_files(png_files.globbed)]
    /\ UNCHANGED << jobvars, aggvars, pagevars, scanvars, except_png_files >>

\* ------------------------------------- the admission of a scan request: steps
\* validate_resetdata_api_key (resetdata_ai_adapter.py lines 21-39): whether
\* the key is accepted and how many calls of client.models.list() were made.
\* list_ok: the call returns without an exception
validate_resetdata_api_key(llm_api_key, list_ok) ==
    IF llm_api_key = ""
    THEN [ok |-> FALSE, probes |-> 0]
    ELSE [ok |-> list_ok, probes |-> 1]

\* require_resetdata_key (main_api.py lines 75-83): the request goes on to
\* scan_document unless HTTPException(401) is raised
require_resetdata_key(llm_api_key, list_ok) ==
    llm_api_key # "" /\ validate_resetdata_api_key(llm_api_key, list_ok).ok

\* the key is validated again before every page
probes_of_page_call_validating(llm_api_key) == 1

\* call_resetdata_openai_api (lines 41-79) makes the completion request and
\* no call of validate_resetdata_api_key
probes_of_page_call(llm_api_key) == 0

\* FastAPI resolves Depends(require_resetdata_key) before it calls
\* scan_document; a revoked key fails the probe, a valid one may fail it too
AdmissionCheck ==
    /\ pc = "admission"
    /\ admission.st = "arrived"
    /\ \E list_ok \in BOOLEAN :
          /\ admission.key = "revoked" => ~list_ok
          /\ admission' =
                [admission EXCEPT
                   !.probes = @ + (IF admission.key = "" THEN 0
                                   ELSE validate_resetdata_api_key(admission.key,
                                                                   list_ok).probes),
                   !.st = IF require_resetdata_key(admission.key, list_ok)
                          THEN "admitted" ELSE "http_401"]
    /\ UNCHANGED << jobvars, aggvars, pagevars, scanvars, except_admission >>

\* scan_document creates the job directory and starts the pipeline on a
\* document of some pages (main_api.py lines 166-207)
AdmissionPipelineStart ==
    /\ pc = "admission"
    /\ admission.st = "admitted"
    /\ \E n \in 1 .. MaxPages :
          admission' = [admission EXCEPT !.st = "running", !.job_dir = TRUE,
                                         !.pages_left = n]
    /\ UNCHANGED << jobvars, aggvars, pagevars, scanvars, except_admission >>

\* one inference call of the pipeline, made with the key of the request
AdmissionPage ==
    /\ pc = "admission"
    /\ admission.st = "running"
    /\ admission' =
          [admission EXCEPT
             !.page_calls = @ + 1,
             !.probes = @ + probes_of_page_call(admission.key),
             !.pages_left = @ - 1,
             !.st = IF admission.pages_left = 1 THEN "done" ELSE @]
    /\ UNCHANGED << jobvars, aggvars, pagevars, scanvars, except_admission >>

\* -------------------------------------------- parse_pdfinfo_output: steps
\* The output of pdfinfo is given by the values of the lines the parser looks
\* at. A value of "Pages" or "Page rot": an integer, another text, the empty
\* text, or no such line. A value of "Page size": "612 x 792 pts (letter)"
\* (decomposes), "1.2.3 x 4 pts" (matches the pattern, float() fails), another
\* text, or no such line. A value of "Encrypted": yes, another text, no line.
NumericValues == { "absent", "integer", "text", "empty" }

PageSizeValues == { "absent", "decomposes", "bad_number", "text" }

FlagValues == { "absent", "yes", "text" }

PdfinfoOutputs ==
    [ pages : NumericValues, page_rot : NumericValues,
      page_size : PageSizeValues, encrypted : FlagValues ]

\* int() outside the try block
numeric_field_unguarded(value) ==
    [type |-> IF value = "integer" THEN "int" ELSE IF value = "absent" THEN "absent" ELSE "str",
     raised |-> value \in { "text", "empty" }]

\* `try: metadata[key] = int(metadata[key]) except (ValueError, TypeError)`
\* (lines 191-196): the type of the field afterwards; a value that is not an
\* integer stays the text it was
numeric_field(value) ==
    [type |-> IF value = "integer" THEN "int" ELSE IF value = "absent" THEN "absent" ELSE "str",
     raised |-> FALSE]

\* the page size (lines 204-211): page_size stays the text it was, and the
\* two dimensions are added when the text decomposes
page_size_fields(value) ==
    [page_size |-> IF value = "absent" THEN "absent" ELSE "str",
     page_width_pts |-> IF value = "decomposes" THEN "float" ELSE "absent",
     page_height_pts |-> IF value = "decomposes" THEN "float" ELSE "absent",
     raised |-> FALSE]

\* metadata[key].lower() == 'yes' (lines 199-201)
flag_field(value) ==
    [type |-> IF value = "absent" THEN "absent" ELSE "bool", raised |-> FALSE]

\* parse_pdfinfo_output (lines 143-214): the type of each field of the dict
\* it returns, and whether an exception leaves it
parse_pdfinfo_output(stdout) ==
    LET size == page_size_fields(stdout.page_size)
    IN  [metadata |-> [pages |-> numeric_field(stdout.pages).type,
                       page_rot |-> numeric_field(stdout.page_rot).type,
                       encrypted |-> flag_field(stdout.encrypted).type,
                       page_size |-> size.page_size,
                       page_width_pts |-> size.page_width_pts,
                       page_height_pts |-> size.page_height_pts],
         raised |-> \/ numeric_field(stdout.pages).raised
                    \/ numeric_field(stdout.page_rot).raised
                    \/ flag_field(stdout.encrypted).raised
                    \/ size.raised]

PdfinfoParse ==
    /\ pc = "pdfinfo"
    /\ ~pdfinfo.called
    /\ \E stdout \in PdfinfoOutputs :
          LET r == parse_pdfinfo_output(stdout)
          IN  pdfinfo' = [called |-> TRUE, stdout |-> stdout,
                          metadata |-> r.metadata, raised |-> r.raised]
    /\ UNCHANGED << jobvars, aggvars, pagevars, scanvars, except_pdfinfo >>

\* ---------------------------------------------------- the job store: steps
JobStatus ==
    { "created", "queued", "validating", "converting", "processing",
      "aggregating", "completed", "error", "cancelled" }

\* the progress argument: None, or a number inside or outside 0..100
ProgressArgs ==
    { [given |-> FALSE, value |-> 0] }
    \cup [given : {TRUE}, value : { 0 - 1, 0, 50, 100, 101 }]

\* the progress stored as it is given
update_status_without_clamp(job, status, progress) ==
    LET progressed == IF progress.given THEN progress.value ELSE job.progress
    IN  [job EXCEPT
            !.status = status,
            !.progress = IF status = "completed" THEN 100 ELSE progressed,
            !.completed_at = IF status \in { "completed", "error" } THEN TRUE ELSE @]

\* max(0.0, min(100.0, float(progress)))
clamp_progress(value) ==
    LET upper == IF value < 100 THEN value ELSE 100
    IN  IF upper > 0 THEN upper ELSE 0

\* Job.update_status (models.py:116-128)
update_status(job, status, progress) ==
    LET progressed ==
            IF progress.given THEN clamp_progress(progress.value) ELSE job.progress
    IN  [job EXCEPT
            !.status = status,
            !.progress = IF status = "completed" THEN 100 ELSE progressed,
            !.completed_at = IF status \in { "completed", "error" } THEN TRUE ELSE @]

\* Job.add_error (models.py:130-136)
add_error(job, recoverable) ==
    LET appended == [job EXCEPT !.errors = @ + 1]
    IN  IF ~recoverable
        THEN update_status(appended, "error", [given |-> FALSE, value |-> 0])
        ELSE appended

\* Job.set_results (models.py:138-141)
set_results(job) ==
    update_status([job EXCEPT !.results = TRUE], "completed",
                  [given |-> FALSE, value |-> 0])

\* a call on the store: the job is changed when the id is known, and the
\* call returns whether it was
StoreCalled(changed, op, known, recoverable) ==
    [(IF known THEN changed ELSE stored_job) EXCEPT
        !.calls = stored_job.calls + 1,
        !.last = [op |-> op, known |-> known, recoverable |-> recoverable,
                  returned |-> known]]

\* InMemoryJobStore.update_job_status (job_store.py:113-124)
UpdateJobStatus ==
    /\ pc = "jobstore"
    /\ stored_job.calls < MaxStoreCalls
    /\ \E known \in BOOLEAN, status \in JobStatus, progress \in ProgressArgs :
          stored_job' = StoreCalled(update_status(stored_job, status, progress),
                                    "update_job_status", known, FALSE)
    /\ UNCHANGED << jobvars, aggvars, pagevars, scanvars, except_stored_job >>

\* InMemoryJobStore.add_job_error (job_store.py:126-136)
AddJobError ==
    /\ pc = "jobstore"
    /\ stored_job.calls < MaxStoreCalls
    /\ \E known \in BOOLEAN, recoverable \in BOOLEAN :
          stored_job' = StoreCalled(add_error(stored_job, recoverable),
                                    "add_job_error", known, recoverable)
    /\ UNCHANGED << jobvars, aggvars, pagevars, scanvars, except_stored_job >>

\* InMemoryJobStore.set_job_results (job_store.py:138-148)
SetJobResults ==
    /\ pc = "jobstore"
    /\ stored_job.calls < MaxStoreCalls
    /\ \E known \in BOOLEAN :
          stored_job' = StoreCalled(set_results(stored_job), "set_job_results",
                                    known, FALSE)
    /\ UNCHANGED << jobvars, aggvars, pagevars, scanvars, except_stored_job >>

Next ==
    \/ Validate
    \/ Convert
    \/ MetadataToolEnds
    \/ RasterToolEnds
    \/ JoinRasterMeta
    \/ MetaPassLaunch
    \/ \E p \in Pages : MetaPageStart(p)
    \/ \E p \in Pages : MetaPageResume(p)
    \/ MetaGather
    \/ MainPassLaunch
    \/ \E p \in Pages : PageStart(p)
    \/ \E p \in Pages : PageResume(p)
    \/ Collect
    \/ Aggregate
    \/ Finally
    \/ ScanReturn
    \/ ScanFail
    \/ \E p \in AggPages, status \in PageProcessingStatus : AggAppend(p, status)
    \/ AggCall
    \/ PageTaskCall
    \/ ClockTick
    \/ \E r \in Requests : ScanArrive(r)
    \/ \E r \in Requests : ScanCleanup(r)
    \/ SummaryClockTick
    \/ SummaryCall
    \/ SubprocessRun
    \/ ConversionCall
    \/ \E f \in FileNames : PngFileListed(f)
    \/ PngFilesSorted
    \/ AdmissionCheck
    \/ AdmissionPipelineStart
    \/ AdmissionPage
    \/ PdfinfoParse
    \/ UpdateJobStatus
    \/ AddJobError
    \/ SetJobResults

Spec == Init /\ [][Next]_vars


\* ------------------------------------------------------------------ claims
Exited == { "returned", "raised", "http_200", "http_500" }

\* the job got past rasterization (or took the image shortcut): it has pages
HasPages == screenshot_paths >= 1

OutcomesFor(pages, p) == { i \in DOMAIN pages : pages[i].page_number = p }

\* C1: once N >= 1 pages are rendered, the returned result holds exactly one
\* outcome for each page 1..N whatever happens inside a page task; a failure
\* inside a page task never makes the job fail.
C1_OneOutcomePerPage ==
    (pc \in Exited /\ HasPages) =>
        /\ error = "none"
        /\ final_results.present
        /\ Len(final_results.pages) = screenshot_paths
        /\ \A p \in MainPages : Cardinality(OutcomesFor(final_results.pages, p)) = 1

\* C2: at every moment of the pre-pass and of the main pass the number of page
\* tasks in flight is at most the configured worker limit.
C2_InFlightWithinWorkerLimit ==
    \A w \in WorkerLimits :
        /\ Cardinality(InFlight(meta_tasks)) <= w
        /\ Cardinality(InFlight(tasks)) <= w

\* C3: the pages list of the returned result is the outcomes of the page
\* tasks in ascending page order, whatever the order the tasks completed in.
C3_PagesIndependentOfCompletionOrder ==
    (pc \in Exited /\ final_results.present) =>
        /\ Len(final_results.pages) = screenshot_paths
        /\ \A p \in MainPages : final_results.pages[p] = tasks[p].out

C3_Witness ==
    /\ pc = "returned"
    /\ final_results.present
    /\ Len(page_results) >= 2
    /\ page_results[1].page_number > page_results[2].page_number

\* C4: when process_document_stateless has returned a result or failed with a
\* fatal error, the input file and the job directory no longer exist,
\* provided neither deletion failed.
FatalErrors ==
    { "ValueError: input file not found",
      "RuntimeError: document conversion failed",
      "RuntimeError: screenshot generation failed",
      "RuntimeError: aggregation failed" }

C4_FilesGoneAfterExit ==
    ( /\ pc \in {"returned", "raised"}
      /\ error \in FatalErrors \cup {"none"}
      /\ ~cleanup.unlink_failed
      /\ ~cleanup.rmtree_failed ) =>
        ~fs.input /\ ~fs.jobdir

C4_Witness ==
    /\ pc = "raised"
    /\ error = "RuntimeError: screenshot generation failed"
    /\ cleanup.ran
    /\ ~cleanup.unlink_failed
    /\ ~cleanup.rmtree_failed
    /\ ~fs.input
    /\ ~fs.jobdir

IsErrorStatus(status) == status \notin {SUCCESS, MOCK_SUCCESS}

\* C5: if no fatal step occurs the job returns an AggregatedResult and does
\* not fail; if all N pages end with an error status the result holds N
\* outcomes, successful count 0 and error count N.
C5_ReturnsResultWithoutFatalStep ==
    (pc \in Exited /\ HasPages) =>
        /\ error = "none"
        /\ final_results.present
        /\ (\A p \in MainPages : IsErrorStatus(tasks[p].out.status)) =>
              /\ Len(final_results.pages) = screenshot_paths
              /\ final_results.summary.successful_pages_count = 0
              /\ final_results.summary.pages_with_errors_count = screenshot_paths

\* the four steps of a page task as the code runs them
InferenceFailed(t) == t.st \in {"done", "raised"} /\ t.resp.kind = "error"

RequestedFormat == IF cfg.output_format = "json" THEN "application/json" ELSE "text/plain"

AllFourStepsSucceeded(t) ==
    /\ t.st \in {"done", "raised"}
    /\ t.resp.kind = "text"
    /\ t.resp.text # << >>
    /\ ~parse_and_validate_ai_output(t.resp.text, RequestedFormat).err

\* C6: if the inference call of the pages in F fails and every other page
\* succeeds at all four steps, the result holds exactly N outcomes, api-error
\* for the pages in F and success for the others.
C6_StatusDependsOnOwnStepsOnly ==
    ( /\ pc \in Exited
      /\ HasPages
      /\ \A p \in MainPages : InferenceFailed(tasks[p]) \/ AllFourStepsSucceeded(tasks[p]) ) =>
        /\ final_results.present
        /\ Len(final_results.pages) = screenshot_paths
        /\ \A p \in MainPages :
              /\ final_results.pages[p].page_number = p
              /\ final_results.pages[p].status =
                    IF InferenceFailed(tasks[p]) THEN ERROR_API ELSE SUCCESS

\* C7: an inference call that does not answer within process_timeout ends
\* with an outcome of status timeout-error for that page.
C7_LateCallYieldsTimeoutError ==
    \A p \in Pages :
        (tasks[p].st = "done" /\ tasks[p].resp.late) =>
            tasks[p].out.status = ERROR_TIMEOUT

StrictlyAscending(pages) ==
    \A i \in 1 .. Len(pages) - 1 : pages[i].page_number < pages[i + 1].page_number

\* C8: for every list of outcomes, in any input order, the aggregator returns
\* a pages list sorted strictly ascending by page number.
C8_PagesStrictlyAscending ==
    /\ agg_out.present => StrictlyAscending(agg_out.pages)
    /\ final_results.present => StrictlyAscending(final_results.pages)

C8_Witness ==
    /\ agg_out.present
    /\ Len(agg_in.page_results) >= 3
    /\ agg_in.page_results[1].page_number > agg_in.page_results[2].page_number
    /\ agg_in.page_results[2].page_number < agg_in.page_results[3].page_number

CountsAddUp(result, given) ==
    /\ result.summary.successful_pages_count + result.summary.pages_with_errors_count
          = result.summary.processed_pages_count
    /\ result.summary.processed_pages_count = Len(result.pages)
    /\ Len(result.pages) = Len(given)

\* C9: in every AggregatedResult successful + errors = processed = len(pages):
\* every outcome handed to the aggregator is counted exactly once.
C9_CountsAddUp ==
    /\ agg_out.present => CountsAddUp(agg_out, agg_in.page_results)
    /\ final_results.present => CountsAddUp(final_results, page_results)

C9_Witness ==
    /\ agg_out.present
    /\ agg_out.summary.successful_pages_count >= 1
    /\ agg_out.summary.pages_with_errors_count >= 1
    /\ agg_out.summary.mock_pages_count >= 1

WithStatus(given, S) == { i \in DOMAIN given : given[i].status \in S }

MockCountedAsSuccess(result, given) ==
    /\ result.summary.mock_pages_count <= result.summary.successful_pages_count
    /\ result.summary.mock_pages_count = Cardinality(WithStatus(given, {MOCK_SUCCESS}))
    /\ result.summary.successful_pages_count
          = Cardinality(WithStatus(given, {SUCCESS, MOCK_SUCCESS}))
    /\ result.summary.pages_with_errors_count
          = Cardinality(WithStatus(given, PageProcessingStatus \ {SUCCESS, MOCK_SUCCESS}))

\* C10: in every AggregatedResult mock_pages_count <= successful_pages_count:
\* a mock-success outcome is counted as mock and as successful, never as error.
C10_MockWithinSuccessful ==
    /\ agg_out.present => MockCountedAsSuccess(agg_out, agg_in.page_results)
    /\ final_results.present => MockCountedAsSuccess(final_results, page_results)

C10_Witness ==
    /\ agg_out.present
    /\ agg_out.summary.mock_pages_count = Len(agg_in.page_results)
    /\ agg_out.summary.mock_pages_count >= 2
    /\ agg_out.summary.successful_pages_count = agg_out.summary.mock_pages_count

NoPageTaskLaunched == \A p \in Pages : tasks[p] = NoTask /\ meta_tasks[p] = NoTask

ScreenshotFailure == "RuntimeError: screenshot generation failed"

\* C11: when the rasterizer leaves no PNG file, extract_pdf_pages_as_png
\* reports failure whatever the exit code (0 included), the job then fails
\* with the fatal screenshot error, and no page task is ever launched.
C11_ZeroFilesIsFatal ==
    /\ []((screenshot_task.st = "done" /\ screenshot_task.found = 0) =>
              ~screenshot_task.success)
    /\ [][(/\ pc = "rastermeta"
            /\ screenshot_task.st = "done"
            /\ screenshot_task.found = 0
            /\ pc' # pc) =>
              (pc' = "finally" /\ error' = ScreenshotFailure)]_vars
    /\ [](error = ScreenshotFailure => (NoPageTaskLaunched /\ ~final_results.present))

C11_Witness ==
    /\ pc = "rastermeta"
    /\ screenshot_task.st = "done"
    /\ screenshot_task.returncode = 0
    /\ screenshot_task.found = 0
    /\ ~screenshot_task.success

ConversionFailure == "RuntimeError: document conversion failed"

\* C12: convert_to_pdf_libreoffice reports success iff the tool exited with
\* code 0 and the output PDF exists (exit code 0 without the file is a
\* failure), and a failed conversion makes the job fail with a fatal error.
C12_ConversionSuccessNeedsCodeAndFile ==
    conversion.st = "done" =>
        /\ conversion.convert_success <=>
               (conversion.returncode = 0 /\ conversion.output_exists)
        /\ ~conversion.convert_success =>
               /\ pc \in {"finally"} \cup Exited
               /\ error = ConversionFailure
               /\ ~final_results.present
               /\ NoPageTaskLaunched
        /\ conversion.convert_success => error # ConversionFailure

C12_Witness ==
    /\ pc = "raised"
    /\ conversion.st = "done"
    /\ conversion.returncode = 0
    /\ ~conversion.output_exists
    /\ error = ConversionFailure

\* extract_pdf_metadata returned success False: pdfinfo exited with a
\* non-zero code or could not be launched
MetadataToolFailed == meta_task.st = "done" /\ ~meta_task.success

\* C13: when the metadata tool fails and rasterization yields N >= 1 pages
\* the job does not abort: it returns an AggregatedResult whose reported
\* page count is N, the number of rendered pages.
C13_MetadataFailureIsRecoverable ==
    (pc \in Exited /\ MetadataToolFailed /\ HasPages) =>
        /\ error = "none"
        /\ final_results.present
        /\ final_results.summary.source_total_pages = screenshot_paths

\* C14: the metadata mapping embedded in every returned AggregatedResult
\* holds a page count and a source type that is "document" or "image",
\* whether the metadata extraction succeeded, failed or found no Pages line.
C14_EmbeddedMetadataHasPagesAndSourceType ==
    (pc \in Exited /\ final_results.present) =>
        /\ "pages" \in DOMAIN final_results.summary.pdf_metadata
        /\ "source_type" \in DOMAIN final_results.summary.pdf_metadata
        /\ final_results.summary.pdf_metadata["source_type"] \in {"document", "image"}

PrePassLaunched == { p \in Pages : meta_tasks[p] # NoTask }

\* C15: for a document of N rendered pages the context pre-pass launches a
\* page task for exactly the pages 1..min(N, 3) and for no other page,
\* however large N is.
C15_PrePassTakesFirstThreePages ==
    LET N == screenshot_paths
        first == 1 .. (IF N < 3 THEN N ELSE 3)
    IN  /\ PrePassLaunched \subseteq first
        /\ pc = "meta_gather" => PrePassLaunched = first

C15_Witness ==
    /\ pc = "meta_gather"
    /\ screenshot_paths > 3
    /\ PrePassLaunched = {1, 2, 3}
    /\ \A p \in PrePassLaunched : meta_tasks[p].st = "done"

\* one page task given a model text: the image was encoded and the inference
\* call returned the text without error
PageGotText ==
    /\ page_out.called
    /\ page_in.img_ok
    /\ page_in.llm_api_key # ""
    /\ page_in.resp.kind = "text"

RawTextVerbatim ==
    /\ page_out.parsed = [data |-> StrData(page_in.resp.text), status |-> "none",
                          err |-> FALSE]
    /\ ~page_out.raised
    /\ page_out.out.status = SUCCESS
    /\ page_out.out.data = StrData(page_in.resp.text)

\* C16 as stated: when the requested format is raw text no parse is attempted
\* and, for every text the model returns, the page's outcome is success with
\* that text verbatim as payload.
C16_RawTextAlwaysSuccess ==
    (PageGotText /\ page_in.output_format = "text") => RawTextVerbatim

\* C16 amended: when the requested format is raw text no parse is attempted
\* and, for every non-empty text the model returns, the page's outcome is
\* success with that text verbatim as payload; the empty text yields a
\* parse-error outcome without payload.
C16_RawTextNonEmptySuccess ==
    (PageGotText /\ page_in.output_format = "text") =>
        IF page_in.resp.text # <<>>
        THEN RawTextVerbatim
        ELSE /\ ~page_out.raised
             /\ page_out.out.status = ERROR_PARSING
             /\ page_out.out.data = NoData

C16_Witness ==
    /\ PageGotText
    /\ page_in.output_format = "text"
    /\ page_in.resp.text = <<"ws", "fj", "ws">>
    /\ page_out.out.status = SUCCESS
    /\ page_out.out.data = StrData(<<"ws", "fj", "ws">>)

\* texts that are valid JSON once the whitespace around them, a leading
\* ```json, a trailing ``` and the HTML escapes are taken away
Pad == UNION { [1 .. n -> {"ws"}] : n \in 0 .. MaxTextLen }

ValidJsonWhenCleaned(t) ==
    \E a \in Pad, b \in Pad, c \in Pad, d \in Pad,
       open \in {<<>>, <<"fj">>}, close \in {<<>>, <<"f">>},
       value \in {"obj", "arr", "null", "eobj"} :
          t = a \o open \o b \o <<value>> \o c \o close \o d

\* C17: when the requested format is structured, the parse succeeds only if
\* the text, after stripping a leading ```json and a trailing ``` and
\* HTML-unescaping, is valid JSON; a text that is empty after stripping or
\* is not valid JSON yields the parse-error status with the original,
\* unmodified raw text, and the page outcome carries that raw text.
C17_StructuredParseFailureKeepsRawText ==
    (PageGotText /\ page_in.output_format = "json") =>
        LET text == page_in.resp.text
        IN  /\ ~page_out.parsed.err <=> ValidJsonWhenCleaned(text)
            /\ page_out.parsed.err =>
                  /\ page_out.parsed.status = ERROR_PARSING
                  /\ page_out.parsed.data = StrData(text)
                  /\ ~page_out.raised
                  /\ page_out.out.status = ERROR_PARSING
                  /\ text # <<>> => page_out.out.data = StrData(text)

C17_Witness ==
    /\ PageGotText
    /\ page_in.output_format = "json"
    /\ page_in.resp.text = <<"ws", "fj", "f">>
    /\ page_out.parsed.err
    /\ page_out.out.status = ERROR_PARSING
    /\ page_out.out.data = StrData(<<"ws", "fj", "f">>)

\* the stages of a job in their order, by the position of the job coroutine
StageRank(at) ==
    CASE at = "start" -> 1
      [] at = "converting" -> 2
      [] at = "rastermeta" -> 3
      [] at = "meta_pass" -> 4
      [] at = "meta_gather" -> 5
      [] at = "main_pass" -> 6
      [] at = "collecting" -> 7
      [] at = "finally" -> 8
      [] at \in {"returned", "raised"} -> 9
      [] at \in {"http_200", "http_500"} -> 10
      [] OTHER -> 0

ToolsRunning == meta_task.st = "running" \/ screenshot_task.st = "running"

Unsettled(ts) == { p \in Pages : ts[p].st \in {"created", "calling"} }

\* what holds while a stage runs: the stages before it have settled
StagesSettledInOrder ==
    /\ ToolsRunning => (pc = "rastermeta" /\ conversion.convert_success)
    /\ PrePassLaunched # {} =>
          /\ pc = "meta_gather"
          /\ conversion.convert_success
          /\ ~ToolsRunning
    /\ (\E p \in Pages : tasks[p] # NoTask) =>
          /\ StageRank(pc) >= StageRank("collecting")
          /\ cfg.is_image_input \/ conversion.convert_success
          /\ ~ToolsRunning
          /\ Unsettled(meta_tasks) = {}
    /\ final_results.present => (error = "none" /\ Unsettled(tasks) = {})
    /\ error # "none" => StageRank(pc) >= StageRank("finally")

\* C18: a job goes through validating, converting, rasterizing+metadata, the
\* optional context pass, the main pass, aggregating and done in that order
\* only; a stage starts only once the one before it has settled (no main-pass
\* task before the conversion, the rasterization, the metadata read and every
\* context-pass task have settled); no stage is entered twice, and nothing
\* runs a further stage once the job has failed or is done.
C18_StagesInOrderOnce ==
    /\ [][pc' # pc => StageRank(pc') > StageRank(pc)]_vars
    /\ [][(pc = "rastermeta" /\ pc' # pc) =>
              (meta_task.st = "done" /\ screenshot_task.st = "done")]_vars
    /\ [][(pc = "meta_gather" /\ pc' # pc) =>
              (pc' = "main_pass" /\ Unsettled(meta_tasks) = {})]_vars
    /\ [][(~final_results.present /\ final_results'.present) =>
              (pc = "collecting" /\ \A p \in MainPages : tasks[p].st = "done")]_vars
    /\ []StagesSettledInOrder

C18_Witness ==
    /\ pc = "returned"
    /\ final_results.present
    /\ conversion.convert_success
    /\ cfg.use_meta_intelligence
    /\ meta_context # <<>>
    /\ screenshot_paths = 2

\* C19: a deletion that fails in the cleanup is swallowed: the job still
\* returns exactly the result, or raises exactly the fatal error, it had
\* before the cleanup, and a failure to delete the input file does not
\* prevent the attempt to delete the job directory.
C19_CleanupErrorsSwallowed ==
    [][(pc = "finally" /\ pc' # pc) =>
          /\ error' = error
          /\ final_results' = final_results
          /\ pc' = (IF error = "none" THEN "returned" ELSE "raised")
          /\ cleanup'.ran
          /\ (cleanup'.unlink_failed /\ fs.jobdir) => cleanup'.rmtree_called]_vars

C19_Witness ==
    /\ pc = "returned"
    /\ cleanup.unlink_failed
    /\ cleanup.rmtree_called
    /\ cleanup.rmtree_failed
    /\ final_results.present
    /\ error = "none"

Arrived == { r \in Requests : scans.req[r].st # "none" }

SuccessStatuses == { SUCCESS, MOCK_SUCCESS }

\* error statuses whose outcome may hold the unparsed raw text
RawTextStatuses == { ERROR_IMAGE_ENCODING, ERROR_PARSING }

InputNotFound == "ValueError: input file not found"

\* C22: when the input file does not exist at the start, the job fails at
\* once with the validation error: no converter, rasterizer, metadata tool
\* or inference call is ever launched for it, and the cleanup still runs.
C22_MissingInputFailsAtOnce ==
    /\ [][(pc = "start" /\ ~fs.input /\ pc' # pc) =>
              (pc' = "finally" /\ error' = InputNotFound)]_vars
    /\ [](error = InputNotFound =>
              /\ conversion = NoConversion
              /\ meta_task = NoTool
              /\ screenshot_task = NoTool
              /\ NoPageTaskLaunched
              /\ ~final_results.present
              /\ pc \in Exited => cleanup.ran)

C22_Witness ==
    /\ pc = "raised"
    /\ error = InputNotFound
    /\ cleanup.ran
    /\ conversion = NoConversion
    /\ NoPageTaskLaunched

\* the suffixes considered that are png, jpg, jpeg, gif, bmp or webp in any case
ImageSuffixes == { ".png", ".PNG", ".Jpg", ".jpeg", ".gif", ".bmp", ".webp" }

ImageMetadata == [pages |-> 1, source_type |-> "image"]

MainPassLaunched == { p \in Pages : tasks[p] # NoTask }

\* C23: when the extension of the input, compared without regard to case,
\* is png, jpg, jpeg, gif, bmp or webp, the converter, the rasterizer and
\* the metadata tool are never launched, exactly page 1 (the input itself)
\* is processed in the main pass, and the metadata is exactly
\* {pages: 1, source_type: image}.
C23_ImageShortcut ==
    (pc \notin {"start", "aggregator", "page", "scans"}
        /\ cfg.suffix \in ImageSuffixes /\ error # InputNotFound) =>
        /\ conversion = NoConversion
        /\ meta_task = NoTool
        /\ screenshot_task = NoTool
        /\ pdf_metadata = ImageMetadata
        /\ MainPassLaunched \subseteq {1}
        /\ StageRank(pc) >= StageRank("collecting") => MainPassLaunched = {1}
        /\ final_results.present =>
              /\ Len(final_results.pages) = 1
              /\ final_results.pages[1].page_number = 1
              /\ final_results.summary.pdf_metadata = ImageMetadata

C23_Witness ==
    /\ pc = "returned"
    /\ cfg.suffix = ".PNG"
    /\ final_results.present
    /\ Len(final_results.pages) = 1
    /\ final_results.summary.pdf_metadata = ImageMetadata

PrePassRequested == cfg.use_meta_intelligence /\ cfg.suffix \notin ImageSuffixes

\* C24: the context pre-pass runs if and only if the input is a document and
\* the caller asked for it; when it does not run, no inference call uses the
\* meta-prompt template and every main-pass page gets the user prompt as it is.
C24_PrePassOnlyForRequestedDocuments ==
    /\ [][(pc = "meta_pass" /\ pc' # pc) =>
              /\ (pc' = "meta_gather") = PrePassRequested
              /\ (pc' = "meta_gather") = (\E p \in Pages : meta_tasks'[p] # NoTask)]_vars
    /\ [](/\ PrePassLaunched # {} => PrePassRequested
          /\ \A p \in PrePassLaunched : meta_tasks[p].prompt = META_PROMPT_TEMPLATE
          /\ \A p \in MainPassLaunched : tasks[p].prompt.template # "meta"
          /\ ~PrePassRequested =>
                \A p \in MainPassLaunched : tasks[p].prompt = user_prompt)

C24_Witness ==
    /\ pc = "returned"
    /\ cfg.use_meta_intelligence
    /\ cfg.suffix = ".png"
    /\ tasks[1].st = "done"
    /\ tasks[1].resp.kind = "text"
    /\ tasks[1].prompt = user_prompt

\* the pre-pass pages that count: a returned outcome of status success whose
\* payload is a structured object
PrePassSucceeded ==
    { p \in PrePassLaunched :
        /\ meta_tasks[p].st = "done"
        /\ meta_tasks[p].out.status = SUCCESS
        /\ meta_tasks[p].out.data.type = "dict" }

\* C25: a pre-pass page that fails (an error status, an exception in its
\* task, or a success whose payload is not a structured object) is left out
\* of the context and never aborts the job; with no successful pre-pass page
\* the context is empty and every main-pass page gets the user prompt as it
\* is; with at least one, every main-pass page gets the same prompt, the
\* context block followed by the user prompt.
C25_PrePassFailuresExcluded ==
    /\ [][(pc = "meta_gather" /\ pc' # pc) =>
              /\ pc' = "main_pass"
              /\ error' = "none"
              /\ Len(meta_context') = Cardinality(PrePassSucceeded)
              /\ \A i \in 1 .. Len(meta_context') : meta_context'[i].type = "dict"]_vars
    /\ [](\A p \in MainPassLaunched :
              tasks[p].prompt =
                  IF meta_context = << >>
                  THEN user_prompt
                  ELSE [template |-> "context_then_user", context |-> meta_context])

C25_Witness ==
    /\ pc = "collecting"
    /\ screenshot_paths = 2
    /\ Len(meta_context) = 1
    /\ \A p \in MainPages : tasks[p].prompt.template = "context_then_user"

\* the four steps of the page task called by itself, as its input decides them
EncodeFails == ~page_in.img_ok

CallFails ==
    /\ ~EncodeFails
    /\ page_in.llm_api_key = "" \/ page_in.resp.kind = "error"

TextFails ==
    /\ ~EncodeFails
    /\ ~CallFails
    /\ \/ page_in.resp.text = << >>
       \/ page_in.output_format = "json" /\ ~ValidJsonWhenCleaned(page_in.resp.text)

\* the parsed value is of a type the outcome model does not take
ValidationFails ==
    /\ ~EncodeFails
    /\ ~CallFails
    /\ ~TextFails
    /\ page_out.parsed.data.type = "list"

\* C26: the page task yields success only if all four steps succeeded, and
\* each step has its own failure status: image-encoding-error (and then no
\* inference call is made for the page), api-error, parse-error for an empty
\* or malformed text, validation-error for a validation failure.
C26_EachStepHasItsStatus ==
    /\ page_out.called =>
          /\ ~page_out.raised
          /\ EncodeFails => page_out.out.status = ERROR_IMAGE_ENCODING
          /\ CallFails => page_out.out.status = ERROR_API
          /\ TextFails => page_out.out.status = ERROR_PARSING
          /\ ValidationFails => page_out.out.status = ERROR_VALIDATION
          /\ page_out.out.status = SUCCESS =>
                ~(EncodeFails \/ CallFails \/ TextFails \/ ValidationFails)
    /\ \A p \in Pages :
          /\ tasks[p].out.status = ERROR_IMAGE_ENCODING => tasks[p].resp = NoResp
          /\ meta_tasks[p].out.status = ERROR_IMAGE_ENCODING => meta_tasks[p].resp = NoResp

\* C27: when process_document_stateless exits, by returning or by raising,
\* no page task of the job is still in flight: the cleanup never runs while a
\* launched page task has not settled.
C27_NoPageTaskInFlightAtExit ==
    (cleanup.ran \/ pc \in Exited) =>
        /\ Unsettled(tasks) = {}
        /\ Unsettled(meta_tasks) = {}

\* C28: within one job no step is re-attempted: the converter, the rasterizer
\* and the metadata tool are each launched at most once, every page task makes
\* at most one inference call, in the main pass and in the context pre-pass,
\* also after a failure; a page has a pre-pass task only if it is among the
\* first min(N, 3) pages, and each pass creates its page tasks only once.
PrePassTasks == { p \in Pages : meta_tasks[p].st # "none" }

MainPassTasks == { p \in Pages : tasks[p].st # "none" }

PageTasksCreatedOnce ==
    /\ PrePassTasks' \ PrePassTasks # {} =>
          pc = "meta_pass" /\ pc' # pc /\ PrePassTasks = {} /\ MainPassTasks = {}
    /\ MainPassTasks' \ MainPassTasks # {} =>
          pc = "main_pass" /\ pc' # pc /\ PrePassTasks' = {} /\ MainPassTasks = {}
    /\ pc' # pc => StageRank(pc') > StageRank(pc)

C28_NoStepReattempted ==
    /\ [](/\ attempts.converter <= 1
          /\ attempts.rasterizer <= 1
          /\ attempts.metadata <= 1
          /\ \A p \in Pages : tasks[p].calls <= 1 /\ meta_tasks[p].calls <= 1
          /\ \A p \in PrePassTasks : p <= screenshot_paths /\ p <= MAX_META_PAGES
          /\ \A p \in MainPassTasks : p <= screenshot_paths)
    /\ [][PageTasksCreatedOnce]_vars

\* a job has returned although the inference call of page 1 failed in both
\* passes: each call was made once and none of the tools ran twice
C28_Witness ==
    /\ pc = "returned"
    /\ attempts.converter = 1 /\ attempts.rasterizer = 1 /\ attempts.metadata = 1
    /\ cfg.use_meta_intelligence /\ meta_context = << >>
    /\ tasks[1].calls = 1 /\ tasks[1].resp.kind = "error"
    /\ \E i \in DOMAIN final_results.pages :
          /\ final_results.pages[i].page_number = 1
          /\ final_results.pages[i].status = ERROR_API

\* C29: a job that had at least one page to process and whose main pass
\* collected no outcome fails: process_document_stateless raises, with the
\* aggregation failure where the check after the loop is what stops it, and it
\* never returns an AggregatedResult whose pages list is empty for a job that
\* had pages.
AggregationFailed == "RuntimeError: aggregation failed"

MainPassEndsWithoutOutcome ==
    pc = "collecting" /\ pc' # pc /\ HasPages /\ page_results' = << >>

RasterizerWarned ==
    /\ screenshot_task.st = "done"
    /\ screenshot_task.returncode # 0
    /\ screenshot_task.found >= 1

C30_NonZeroExitWithFilesIsSuccess ==
    /\ [](RasterizerWarned =>
            /\ screenshot_task.success
            /\ screenshot_task.message # ""
            /\ screenshot_task.message # "error")
    /\ [][(RasterizerWarned /\ pc = "rastermeta" /\ pc' # pc) =>
              /\ pc' = "meta_pass"
              /\ error' = "none"
              /\ screenshot_paths' = screenshot_task.found]_vars

\* pdftoppm has exited with code 1 and left two page images: the extraction
\* has reported success with a warning and both files
C30_Witness ==
    /\ pc = "rastermeta"
    /\ screenshot_task.st = "done"
    /\ screenshot_task.returncode = 1
    /\ screenshot_task.found = 2
    /\ screenshot_task.success
    /\ screenshot_task.message = "warning"


\* C31: the prompt snippet in the summary is never longer than 200
\* characters, whatever the length of the user prompt, and a prompt of at most
\* 200 characters is the snippet, unchanged.
PromptSnippet == summary_call.first.summary.processing_prompt_used_snippet

C31_SnippetAtMost200 ==
    summary_call.first.present =>
        /\ PromptSnippet.chars <= 200
        /\ summary_call.given.user_prompt <= 200 =>
              /\ PromptSnippet.chars = summary_call.given.user_prompt
              /\ PromptSnippet.kept = summary_call.given.user_prompt
              /\ ~PromptSnippet.dots

\* C32: aggregate_processing_results is a pure function: two calls with the
\* same arguments return the same AggregatedResult, and a call leaves the
\* outcome list and the metadata it was given as they were.
C32_AggregatorIsPure ==
    /\ summary_call.first.present => summary_call.args = summary_call.given
    /\ summary_call.second.present => summary_call.second = summary_call.first


\* C33: run_subprocess_async never raises: a process that exits non-zero
\* gives its exit code as the result, an executable that is not found gives
\* -1, any other launch failure gives -2, and each of the two is told apart
\* from the other and from every return code of a process that was launched.
C33_SentinelsAreDistinct ==
    subprocess.called =>
        /\ ~subprocess.raised
        /\ subprocess.outcome.how = "exited" => subprocess.return_code = subprocess.outcome.code
        /\ subprocess.outcome.how = "not_found" => subprocess.return_code = 0 - 1
        /\ subprocess.outcome.how = "launch_error" => subprocess.return_code = 0 - 2
        /\ subprocess.return_code = 0 - 1 => subprocess.outcome.how = "not_found"
        /\ subprocess.return_code = 0 - 2 => subprocess.outcome.how = "launch_error"


\* C34: whenever convert_to_pdf_libreoffice returns failure, the expected
\* output PDF is absent from the output directory afterwards: a partial file
\* left by a failed run of the tool is deleted; when that deletion itself
\* fails, the file stays, and the failure is still returned as a value: no
\* exception leaves the function.
C34_FailedConversionLeavesNoPdf ==
    (conversion_call.called /\ ~conversion_call.result.success) =>
        /\ ~conversion_call.result.raised
        /\ conversion_call.result.output_left =>
              /\ conversion_call.result.unlink_called
              /\ ~conversion_call.met.unlink_ok
        /\ (conversion_call.met.output_exists /\ conversion_call.met.unlink_ok) =>
              /\ conversion_call.result.unlink_called
              /\ ~conversion_call.result.output_left

\* soffice exited with code 1 and left a PDF; it has been deleted and the
\* conversion has failed
C34_Witness ==
    /\ conversion_call.called
    /\ conversion_call.met.returncode = 1
    /\ conversion_call.met.output_exists
    /\ conversion_call.met.unlink_ok
    /\ ~conversion_call.result.success
    /\ conversion_call.result.unlink_called
    /\ ~conversion_call.result.output_left


\* C35: the page list returned by extract_pdf_pages_as_png is ordered by the
\* number in the names of the generated files, not by the names as strings:
\* it holds every generated file once, the file numbered 10 comes after the
\* file numbered 9, and page k of the job is the file with the k-th smallest
\* number.
GlobbedNumbers == { int_of_digits(png_files.globbed[i]) : i \in DOMAIN png_files.globbed }

SmallerNumbers(n) == { x \in GlobbedNumbers : x < n }

C35_PagesOrderedByNumber ==
    png_files.called =>
        LET paths == png_files.generated_files
        IN  /\ Len(paths) = Len(png_files.globbed)
            /\ { paths[i] : i \in DOMAIN paths }
                  = { png_files.globbed[i] : i \in DOMAIN png_files.globbed }
            /\ \A i, j \in DOMAIN paths :
                  i < j => int_of_digits(paths[i]) < int_of_digits(paths[j])
            /\ \A k \in DOMAIN paths :
                  Cardinality(SmallerNumbers(
                      int_of_digits(screenshot_path_of_page(paths, k)))) = k - 1

\* the directory listed file 10 before file 9 and file 2 after both; the page
\* list has 2, 9, 10 as pages 1, 2, 3
C35_Witness ==
    /\ png_files.called
    /\ png_files.globbed = << << 1, 0 >>, << 9 >>, << 2 >> >>
    /\ png_files.generated_files = << << 2 >>, << 9 >>, << 1, 0 >> >>


\* C36: the credential probe runs once per scan request that carries a
\* credential, before the pipeline starts, and never again: a request whose
\* credential is missing or whose probe fails never starts the pipeline (no
\* working directory is created, no page is processed), and the pipeline
\* does not validate the credential again for its pages.
PipelineStarted == admission.job_dir \/ admission.page_calls > 0

C36_ProbeOncePerRequest ==
    /\ [](/\ admission.probes <= 1
          /\ PipelineStarted => (admission.probes = 1 /\ admission.key = "valid")
          /\ admission.st = "http_401" => ~PipelineStarted
          /\ (admission.st # "arrived" /\ admission.key # "") => admission.probes = 1
          /\ admission.key = "" => admission.probes = 0)
    /\ [][admission.probes' # admission.probes =>
              (admission.st = "arrived" /\ ~PipelineStarted)]_vars
    /\ [][(admission.st = "arrived" /\ admission.st' = "admitted") =>
              admission.probes' = 1]_vars

\* a request with a valid key has had its two pages processed after one probe
C36_Witness ==
    /\ admission.st = "done"
    /\ admission.page_calls = 2
    /\ admission.probes = 1


\* C37: parse_pdfinfo_output never raises, whatever the metadata tool wrote: a
\* known numeric field (pages, page_rot) whose value is not an integer, and a
\* page size that does not decompose, stay the text they were; and whatever
\* the metadata tool returned, the job goes on to its passes once the page
\* images are there.
NumericFieldParsed(given, parsed) ==
    /\ given = "absent" => parsed = "absent"
    /\ given = "integer" => parsed = "int"
    /\ given \in { "text", "empty" } => parsed = "str"

C37_MetadataParsingNeverAborts ==
    /\ [](pdfinfo.called =>
            /\ ~pdfinfo.raised
            /\ NumericFieldParsed(pdfinfo.stdout.pages, pdfinfo.metadata.pages)
            /\ NumericFieldParsed(pdfinfo.stdout.page_rot, pdfinfo.metadata.page_rot)
            /\ pdfinfo.stdout.page_size # "absent" => pdfinfo.metadata.page_size = "str"
            /\ pdfinfo.stdout.page_size \in { "bad_number", "text" } =>
                  pdfinfo.metadata.page_width_pts = "absent")
    /\ [][(pc = "rastermeta" /\ pc' # pc /\ extract_success(screenshot_task.returncode,
                                                            screenshot_task.found)) =>
              (pc' = "meta_pass" /\ error' = "none")]_vars

\* pdfinfo wrote a page count that is no integer and a page size whose
\* numbers do not parse: both are in the dict as text
C37_Witness ==
    /\ pdfinfo.called
    /\ pdfinfo.stdout.pages = "text"
    /\ pdfinfo.stdout.page_size = "bad_number"
    /\ pdfinfo.metadata.pages = "str"
    /\ pdfinfo.metadata.page_size = "str"
    /\ ~pdfinfo.raised


\* C38: the context block lists the payloads of the successful pre-pass pages
\* in ascending page order, numbered 1..k without a gap, k being the number
\* of successful pre-pass pages and the count in the header: the number of an
\* entry is its rank among the successes, not the page it came from.
C38_Block == meta_context_block(meta_context')

C38_Pages == successful_meta_pages(meta_tasks, Cardinality(MetaPages))

C38_ContextNumberedByRank ==
    [][(pc = "meta_gather" /\ pc' # pc) =>
          /\ C38_Block.header_count = Cardinality(PrePassSucceeded)
          /\ Len(C38_Block.entries) = Cardinality(PrePassSucceeded)
          /\ Len(C38_Pages) = Len(C38_Block.entries)
          /\ { C38_Pages[i] : i \in 1 .. Len(C38_Pages) } = PrePassSucceeded
          /\ \A i, j \in 1 .. Len(C38_Pages) : i < j => C38_Pages[i] < C38_Pages[j]
          /\ \A i \in 1 .. Len(C38_Block.entries) :
                /\ C38_Block.entries[i].number = i
                /\ C38_Block.entries[i].data = meta_tasks[C38_Pages[i]].out.data
                /\ C38_Block.entries[i].number =
                      Cardinality({ q \in PrePassSucceeded : q <= C38_Pages[i] })]_vars

\* the pre-pass of page 1 failed and that of page 2 succeeded: the entry of
\* page 2 is about to be written as "Page 1"
C38_Witness ==
    /\ pc = "meta_gather"
    /\ gather_returns(meta_tasks, MetaPages)
    /\ PrePassSucceeded = { 2 }
    /\ successful_meta_pages(meta_tasks, Cardinality(MetaPages)) = << 2 >>
    /\ meta_context_block(successful_meta_results(meta_tasks, Cardinality(MetaPages))).entries[1].number = 1


\* C39: the text of a page is parsed as JSON only when the requested output
\* format is exactly "json"; for every other value ("JSON", "text", a value
\* the service does not know) the parser returns the text as it is, without
\* an error, and the outcome of the page carries that text as a text payload,
\* never a structured one.
C39_JsonOnlyForExactFormat ==
    PageGotText =>
        LET text == page_in.resp.text
        IN  /\ page_in.output_format = "json" =>
                  page_out.parsed = parse_json_output(text)
            /\ page_in.output_format # "json" =>
                  /\ page_out.parsed = [data |-> StrData(text), status |-> "none",
                                        err |-> FALSE]
                  /\ ~page_out.raised
                  /\ page_out.out.data.type # "dict"
                  /\ text # <<>> =>
                        /\ page_out.out.status = SUCCESS
                        /\ page_out.out.data = StrData(text)
            /\ page_out.out.data.type = "dict" => page_in.output_format = "json"

\* a text that is valid JSON, asked for with the format "JSON": it comes back
\* as text
C39_Witness ==
    /\ PageGotText
    /\ page_in.output_format = "JSON"
    /\ page_in.resp.text = << "obj" >>
    /\ page_out.out.status = SUCCESS
    /\ page_out.out.data = StrData(<< "obj" >>)

\* the same text asked for with a format the service does not know
C39_WitnessUnknown ==
    /\ PageGotText
    /\ page_in.output_format = "xml"
    /\ page_in.resp.text = << "obj" >>
    /\ page_out.out.data = StrData(<< "obj" >>)


\* C40: after any sequence of update_job_status, add_job_error and
\* set_job_results calls on a job of the store, its progress is within 0..100
\* and is 100 whenever the status is COMPLETED, completed_at is set whenever
\* the status is COMPLETED or ERROR, an error that is not recoverable leaves
\* the status ERROR and a recoverable one leaves the status as it was.
ErrorAdded(recoverable) ==
    /\ stored_job'.calls = stored_job.calls + 1
    /\ stored_job'.last.op = "add_job_error"
    /\ stored_job'.last.known
    /\ stored_job'.last.recoverable = recoverable

C40_JobRecordInvariants ==
    /\ [](/\ stored_job.progress >= 0
          /\ stored_job.progress <= 100
          /\ stored_job.status = "completed" => stored_job.progress = 100
          /\ stored_job.status \in { "completed", "error" } => stored_job.completed_at)
    /\ [][ErrorAdded(FALSE) => stored_job'.status = "error"]_vars
    /\ [][ErrorAdded(TRUE) =>
              /\ stored_job'.status = stored_job.status
              /\ stored_job'.progress = stored_job.progress
              /\ stored_job'.errors = stored_job.errors + 1]_vars

\* a progress of 101 was given and stored as 100, then a recoverable error
\* was added to the job while it was processing
C40_Witness ==
    /\ stored_job.calls = 2
    /\ stored_job.last = [op |-> "add_job_error", known |-> TRUE,
                          recoverable |-> TRUE, returned |-> TRUE]
    /\ stored_job.status = "processing"
    /\ stored_job.progress = 100
    /\ stored_job.errors = 1
    /\ ~stored_job.completed_at

====
